---- MODULE Spec2Model ----
(***************************************************************************)
(* A model of flatpak-node-generator: the ManifestGenerator (source set,   *)
(* queued commands, deterministic ordering, size-bounded splitting), the   *)
(* yarn and pnpm module providers, and GeneratorProgress, which runs one   *)
(* generate_package task per package on the asyncio event loop behind a    *)
(* semaphore.                                                              *)
(*                                                                         *)
(* A source is what ManifestGenerator._sources holds: a tuple of           *)
(* (key, value) pairs in the insertion order of the dict it came from.     *)
(* Values are strings, except under the keys "commands" and "only-arches", *)
(* whose values are tuples of strings.                                     *)
(***************************************************************************)
EXTENDS Integers, Sequences, FiniteSets, TLC

VARIABLES
    sources,        \* ManifestGenerator._sources: a set of sources
    commands,       \* ManifestGenerator._commands: a sequence of strings
    split_size,     \* ManifestGenerator.split_size
    gen_pc,         \* "open" | "finalized" | "written" | "split"
    manifest,       \* the sources written as one file: list(ordered_sources())
    chunks,         \* the lists yielded by split_sources(), in order
    warnings        \* diagnostics written while splitting

gen_vars == <<sources, commands, split_size, gen_pc, manifest, chunks, warnings>>

VARIABLES
    provider,       \* "yarn" | "pnpm": the dialect main was started with
    packages,       \* the packages in the iteration order of main's set
    max_parallel,   \* GeneratorProgress(max_parallel=...)
    sem_value,      \* parallel_limit: the semaphore's free slots
    sem_waiters,    \* parallel_limit: the tasks waiting in acquire(), oldest first
    task_pc,        \* per task: where its _generate coroutine stands
    cancel_req,     \* the tasks task.cancel() was called on while pending
    fetch_ok,       \* per task: whether the fetch it awaited succeeded
    ready,          \* the event loop's queue of callbacks ready to run
    done_q,         \* as_completed's queue of finished tasks
    run_pc,         \* "idle" | "init" | "waiting" | "woken" | "returned" | "raised"
    taken,          \* how many results run() has taken from as_completed
    run_exc,        \* the task whose exception run() raised (0: none)
    first_failed,   \* the first task whose generate_package raised (0: none)
    tarballs,       \* PnpmModuleProvider._tarballs
    late_adds,      \* sources or commands a task added after run() was over
    at_raise,       \* the tasks still pending when run() raised
    run_no,         \* 1: first run of the generator, 2: second run
    first_manifest, \* what the first run wrote
    first_packages, \* the iteration order of the first run
    first_parallel, \* max_parallel of the first run
    processing      \* GeneratorProgress.processing: a set of packages

run_vars == <<provider, packages, max_parallel, sem_value, sem_waiters, task_pc,
              cancel_req, fetch_ok, ready, done_q, run_pc, taken, run_exc,
              first_failed, tarballs, late_adds, at_raise, run_no,
              first_manifest, first_packages, first_parallel, processing>>

VARIABLES
    req_op,         \* "none" | "read_all" | "read_parts": the Requests method called
    req_cachable,   \* its cachable argument
    req_retries,    \* Requests.retries
    req_size,       \* the size argument of read_parts
    req_content,    \* the bytes the URL serves
    req_pc,         \* "idle" | "start" | "attempt" | "returned" | "raised" | "cancelled"
    req_i,          \* the loop variable i: the attempt under way
    req_pos,        \* how many bytes the stream of the attempt has delivered
    req_consumed,   \* the bytes handed to the caller, in order
    req_exc,        \* the attempt whose exception propagated (0: the assert; -1: none)
    req_failed,     \* the attempts that raised
    req_temp,       \* what the bucket writer holds
    req_bucket,     \* the bucket as open_read sees it: <<>> or <<content>>
    req_calls       \* how many calls have been made on the bucket

req_vars == <<req_op, req_cachable, req_retries, req_size, req_content, req_pc,
              req_i, req_pos, req_consumed, req_exc, req_failed, req_temp,
              req_bucket, req_calls>>

VARIABLES
    npm_lock,       \* the integrity string of the lockfile entry, <<>> before any
    npm_dist,       \* the 'dist' object the registry declares for the version
    npm_pc,         \* "idle" | "index" | "size" | "done" | "raised"
    npm_exc,        \* the exception generate_package raised, "none" if none
    npm_resolved,   \* what resolve_source returned: <<>> or <<source>>
    npm_index       \* the urls given to add_index_entry

npm_vars == <<npm_lock, npm_dist, npm_pc, npm_exc, npm_resolved, npm_index>>

VARIABLES
    lf_dialect,     \* "none" | "npm" | "pnpm": the lockfile provider
    lf_no_devel,    \* its no_devel option
    lf_version,     \* lockfileVersion as written, a string of characters; None if missing
    lf_tree,        \* the dependencies (npm) or the packages (pnpm) of the lockfile
    lf_pc,          \* "idle" | "iter" | "done" | "raised": the generator's position
    lf_exc,         \* the exception process_lockfile raised, "none" if none
    lf_lockfile,    \* the Lockfile object built: <<>> or <<version number>>
    lf_yielded,     \* the packages yielded so far, each named by its path in the tree
    lf_stderr       \* what was written to the error stream

lf_vars == <<lf_dialect, lf_no_devel, lf_version, lf_tree, lf_pc, lf_exc,
             lf_lockfile, lf_yielded, lf_stderr>>

VARIABLES
    git_spec,       \* the specifier given to parse_git_source, in its parts as written
    git_from,       \* its from_ argument
    git_pc,         \* "idle" | "parsed" | "generated" | "finalized"
    git_source,     \* the GitSource returned: <<>> or <<source>>
    git_new_url,    \* new_url of parse_git_source, in its parts: <<>> or <<parts>>
    git_sources,    \* NpmModuleProvider.git_sources of the lockfile: path -> source
    git_data        \* the patch tables of _finalize, one per patched file

git_vars == <<git_spec, git_from, git_pc, git_source, git_new_url, git_sources,
              git_data>>

VARIABLES
    nr_registry,    \* NpmModuleProvider.registry_packages: name -> "pending" | "set"
    nr_requests,    \* the names whose registry index was requested, in order
    nr_used,        \* per name: used_versions of its index
    nr_waiters,     \* per name: the tasks awaiting its future, oldest first
    nr_stage,       \* per task: the await it stands at: "index" | "future" | "size"
    nr_lockfiles,   \* NpmModuleProvider.all_lockfiles
    nr_git,         \* NpmModuleProvider.git_sources: lockfile -> (path, source) items
    nr_entries,     \* NpmModuleProvider.index_entries: the urls entered, in order
    nr_data,        \* _finalize: lockfile -> the patch tables of its two files
    nr_no_autopatch,\* the provider's no_autopatch option
    nr_pc           \* "idle" | "open" | "finalized": the provider's with block

nr_vars == <<nr_registry, nr_requests, nr_used, nr_waiters, nr_stage,
             nr_lockfiles, nr_git, nr_entries, nr_data, nr_no_autopatch, nr_pc>>

VARIABLES
    sv_a,           \* a prerelease: the tuple of its parts
    sv_b,           \* another one
    sv_lt           \* <<>>, or the results of a < b, b < a and a < a

sv_vars == <<sv_a, sv_b, sv_lt>>

\* the variables of the parts other than the generator and its run
other_vars == <<req_vars, npm_vars, lf_vars, git_vars, nr_vars, sv_vars>>

\* the variables a request leaves alone
outside_req == <<gen_vars, run_vars, npm_vars, lf_vars, git_vars, nr_vars, sv_vars>>

\* the variables NpmModuleProvider.generate_package leaves alone
outside_npm == <<commands, split_size, gen_pc, manifest, chunks, warnings,
                 run_vars, req_vars, lf_vars, git_vars, nr_vars, sv_vars>>

\* the variables a lockfile provider leaves alone
outside_lf == <<gen_vars, run_vars, req_vars, npm_vars, git_vars, nr_vars, sv_vars>>

\* the variables the handling of a git specifier leaves alone
outside_git == <<commands, split_size, gen_pc, manifest, chunks, warnings,
                 run_vars, req_vars, npm_vars, lf_vars, nr_vars, sv_vars>>

vars == <<gen_vars, run_vars, other_vars>>

(***************************************************************************)
(* Bounds of the model.                                                    *)
(***************************************************************************)
MaxSources == 3
MaxCommands == 2
MaxSplitSize == 400
MaxPkgs == 3
MaxParallel == 2
MaxRetries == 3
MaxBytes == 3
MaxPartSize == 2
MaxCalls == 2
MaxTop == 2
MaxEntries == 3
MaxParts == 2

(***************************************************************************)
(* Program constants.                                                      *)
(***************************************************************************)
JSON_INDENT == 4
DEFAULT_SPLIT_SIZE_KB == 49000
BASE_CURRENT_SIZE == 3

None == <<>>

(***************************************************************************)
(* Python's order on the strings of the model.  StrOrder lists them in     *)
(* ascending code point order; a string outside the list is a generated    *)
(* JSON text, which starts with '{' and so sorts after every listed one.   *)
(***************************************************************************)
StrOrder == <<
    "5SHASUMS256.txt", "5electron-v1-linux-arm64.zip",
    "5electron-v1-linux-armv7l.zip", "5electron-v1-linux-ia32.zip",
    "5electron-v1-linux-x64.zip", "5m-1.tgz", "5n-1.tgz",
    "SHASUMS256.txt-1", "a-1.tgz", "aarch64", "alpha", "arm", "b-1.tgz",
    "beta", "c1", "c2",
    "cd flatpak-node/tmp/g-c1; git archive --format tar -o ../../yarn-mirror/g-c1 HEAD",
    "cd flatpak-node/tmp/g-c2; git archive --format tar -o ../../yarn-mirror/g-c2 HEAD",
    "commands", "commit", "contents", "d1", "da", "dc", "dest",
    "dest-filename",
    "echo \"store-dir=$PWD/flatpak-node/pnpm-store\" >> .npmrc",
    "electron-v1-linux-arm64.zip", "electron-v1-linux-armv7l.zip",
    "electron-v1-linux-ia32.zip", "electron-v1-linux-x64.zip", "f1", "f2",
    "file", "flatpak-node", "flatpak-node/electron-cache",
    "flatpak-node/git-packages/g-c1", "flatpak-node/git-packages/g-c2",
    "flatpak-node/git-packages/k-c1", "flatpak-node/pnpm-tarballs",
    "flatpak-node/tmp/g-c1", "flatpak-node/tmp/g-c2",
    "flatpak-node/yarn-mirror", "from __future__ import annotations", "g1",
    "git",
    "https://github.com/electron/electron/releases/download/v1/SHASUMS256.txt",
    "https://github.com/electron/electron/releases/download/v1/electron-v1-linux-arm64.zip",
    "https://github.com/electron/electron/releases/download/v1/electron-v1-linux-armv7l.zip",
    "https://github.com/electron/electron/releases/download/v1/electron-v1-linux-ia32.zip",
    "https://github.com/electron/electron/releases/download/v1/electron-v1-linux-x64.zip",
    "https://h/o/g", "https://r/a/-/a-1.tgz", "https://r/m/-/m-1.tgz",
    "https://r/n/-/n-1.tgz", "https://s/a/-/a-1.tgz", "i386", "inline",
    "k1", "k2", "m-1.tgz", "mkdir -p flatpak-node/yarn-mirror", "n-1.tgz",
    "only-arches", "p1", "pnpm-manifest.json", "populate_pnpm_store.py",
    "python3 flatpak-node/populate_pnpm_store.py flatpak-node/pnpm-manifest.json flatpak-node/pnpm-tarballs flatpak-node/pnpm-store",
    "script", "sha256", "sha512", "shell", "type", "u1", "u2", "url", "x1",
    "x86_64" >>

StrIndex ==
    [s \in {StrOrder[i] : i \in DOMAIN StrOrder} |->
        CHOOSE i \in DOMAIN StrOrder : StrOrder[i] = s]

StrRank(s) == IF s \in DOMAIN StrIndex THEN StrIndex[s] ELSE Len(StrOrder) + 1

StrLess(a, b) == StrRank(a) < StrRank(b)

RECURSIVE TupleLess(_, _)
TupleLess(a, b) ==
    IF a = <<>> THEN b /= <<>>
    ELSE IF b = <<>> THEN FALSE
    ELSE IF a[1] = b[1] THEN TupleLess(Tail(a), Tail(b))
    ELSE StrLess(a[1], b[1])

IsTupleKey(k) == k \in {"commands", "only-arches"}

\* (key, value) < (key, value) as Python compares two 2-tuples
PairLess(p, q) ==
    IF p[1] /= q[1] THEN StrLess(p[1], q[1])
    ELSE IF IsTupleKey(p[1]) THEN TupleLess(p[2], q[2])
    ELSE StrLess(p[2], q[2])

RECURSIVE SourceLess(_, _)
SourceLess(a, b) ==
    IF a = <<>> THEN b /= <<>>
    ELSE IF b = <<>> THEN FALSE
    ELSE IF a[1][1] /= b[1][1] THEN StrLess(a[1][1], b[1][1])
    ELSE IF a[1][2] = b[1][2] THEN SourceLess(Tail(a), Tail(b))
    ELSE PairLess(a[1], b[1])

RECURSIVE Sorted(_)
Sorted(S) ==
    IF S = {} THEN <<>>
    ELSE LET m == CHOOSE s \in S : \A t \in S \ {s} : SourceLess(s, t)
         IN <<m>> \o Sorted(S \ {m})

(***************************************************************************)
(* Paths are sequences of parts; str(path) joins them with "/".            *)
(***************************************************************************)
RECURSIVE PathStr(_)
PathStr(p) ==
    IF Len(p) = 1 THEN p[1]
    ELSE PathStr(SubSeq(p, 1, Len(p) - 1)) \o "/" \o p[Len(p)]

PathName(p) == p[Len(p)]
PathParent(p) == SubSeq(p, 1, Len(p) - 1)

data_root == <<"flatpak-node">>
tmp_root == data_root \o <<"tmp">>

(***************************************************************************)
(* ManifestGenerator: the sources its add_* methods build.                 *)
(***************************************************************************)
_add_source_with_destination(source, destination, is_dir, only_arches) ==
    LET with_dest ==
            IF destination = None THEN source
            ELSE IF is_dir THEN Append(source, <<"dest", PathStr(destination)>>)
            ELSE LET named == Append(source, <<"dest-filename", PathName(destination)>>)
                 IN IF Len(destination) > 1
                    THEN Append(named, <<"dest", PathStr(PathParent(destination))>>)
                    ELSE named
    IN IF only_arches /= None
       THEN Append(with_dest, <<"only-arches", only_arches>>)
       ELSE with_dest

add_url_source(url, integrity, destination, only_arches) ==
    _add_source_with_destination(
        << <<"type", "file">>, <<"url", url>>,
           <<integrity.algorithm, integrity.digest>> >>,
        destination, FALSE, only_arches)

add_data_source(data, destination) ==
    _add_source_with_destination(
        << <<"type", "inline">>, <<"contents", data>> >>,
        destination, FALSE, None)

add_git_source(url, commit, destination) ==
    _add_source_with_destination(
        << <<"type", "git">>, <<"url", url>>, <<"commit", commit>> >>,
        destination, TRUE, None)

add_script_source(cmds, destination) ==
    _add_source_with_destination(
        << <<"type", "script">>, <<"commands", cmds>> >>,
        destination, FALSE, None)

\* _finalize: the sources after the queued commands are folded in
FinalizeNoCheck(srcs, cmds) ==
    srcs \cup { << <<"type", "shell">>, <<"commands", cmds>> >> }

_finalize(srcs, cmds) ==
    IF cmds /= <<>>
    THEN srcs \cup { << <<"type", "shell">>, <<"commands", cmds>> >> }
    ELSE srcs

\* ordered_sources: no caller sets _upgraded_sources, so the sorted branch runs
ordered_sources(srcs) == Sorted(srcs)

Range(seq) == { seq[k] : k \in DOMAIN seq }

\* the sequences of n distinct elements of S
InjectiveSeqs(S, n) ==
    { q \in [1..n -> S] : \A j, k \in 1..n : j /= k => q[j] /= q[k] }

(***************************************************************************)
(* Packages.  A Package is (name, version, source); the source is either a *)
(* ResolvedSource (a URL and an optional integrity) or a GitSource (a URL  *)
(* and a commit).  integrity is <<>> for None and <<i>> for an Integrity.  *)
(* URLs are kept as an origin and the segments of their path.              *)
(***************************************************************************)
Url(origin, segs) == [origin |-> origin, segs |-> segs]

UrlStr(u) == u.origin \o "/" \o PathStr(u.segs)

Integrity(algorithm, digest) == [algorithm |-> algorithm, digest |-> digest]

ResolvedSource(name, version, resolved, integrity) ==
    [name |-> name, version |-> version, kind |-> "resolved",
     url |-> resolved, integrity |-> integrity, commit |-> ""]

GitSource(name, version, url, commit) ==
    [name |-> name, version |-> version, kind |-> "git",
     url |-> url, integrity |-> <<>>, commit |-> commit]

PkgA == ResolvedSource("a", "1", Url("https://r", <<"a", "-", "a-1.tgz">>),
                       <<Integrity("sha512", "da")>>)
\* another name for the tarball of PkgA
PkgB == ResolvedSource("b", "1", Url("https://r", <<"a", "-", "a-1.tgz">>),
                       <<Integrity("sha512", "da")>>)
\* lockfile entries without an integrity
PkgN == ResolvedSource("n", "1", Url("https://r", <<"n", "-", "n-1.tgz">>), <<>>)
PkgM == ResolvedSource("m", "1", Url("https://r", <<"m", "-", "m-1.tgz">>), <<>>)
\* two commits of one repository
PkgG1 == GitSource("g", "1", Url("https://h", <<"o", "g">>), "c1")
PkgG2 == GitSource("g", "2", Url("https://h", <<"o", "g">>), "c2")

PackageUniverse == {PkgA, PkgB, PkgN, PkgM, PkgG1, PkgG2}

\* PkgA as another registry serves it
PkgC == ResolvedSource("a", "1", Url("https://s", <<"a", "-", "a-1.tgz">>),
                       <<Integrity("sha512", "dc")>>)

\* RemoteUrlMetadata.get(url).integrity: the sha256 of what the URL serves,
\* a value that depends on the URL alone
RemoteIntegrity(u) == Integrity("sha256", "5" \o PathName(u.segs))

\* retrieve_integrity: the integrity of the lockfile, else the fetched one
retrieve_integrity(pkg) ==
    IF pkg.integrity /= <<>> THEN pkg.integrity[1] ELSE RemoteIntegrity(pkg.url)

\* a generate_package call: what it adds to the generator and the provider
Effect(srcs, cmds, tbs) == [sources |-> srcs, commands |-> cmds, tarballs |-> tbs]

NoEffect == Effect({}, <<>>, <<>>)

(***************************************************************************)
(* YarnModuleProvider.                                                     *)
(***************************************************************************)
mirror_dir == data_root \o <<"yarn-mirror">>

\* path segments that are an npm scope; the packages above are unscoped
IsScope(seg) == seg \in {"@s"}

\* _PACKAGE_TARBALL_URL_RE applied to the URL's path, else its basename:
\* the last segment, prefixed by the scope when .../@scope/name/-/file matches
TarballFilename(segs) ==
    LET n == Len(segs)
    IN IF /\ n >= 4
          /\ segs[n - 1] \in {"-", "_attachments"}
          /\ IsScope(segs[n - 3])
       THEN segs[n - 3] \o "-" \o segs[n]
       ELSE segs[n]

RECURSIVE CommonPrefixLen(_, _)
CommonPrefixLen(a, b) ==
    IF a /= <<>> /\ b /= <<>> /\ Head(a) = Head(b)
    THEN 1 + CommonPrefixLen(Tail(a), Tail(b))
    ELSE 0

\* os.path.relpath(path, start)
relpath(path, start) ==
    LET k == CommonPrefixLen(path, start)
    IN PathStr([i \in 1..(Len(start) - k) |-> ".."] \o SubSeq(path, k + 1, Len(path)))

\* generate_package for a ResolvedSource, once the integrity is known
YarnResolvedByName(pkg, integrity) ==
    Effect({ add_url_source(UrlStr(pkg.url), integrity,
                            mirror_dir \o <<pkg.name \o "-" \o pkg.version \o ".tgz">>,
                            None) },
           <<>>, <<>>)

YarnResolved(pkg, integrity) ==
    Effect({ add_url_source(UrlStr(pkg.url), integrity,
                            mirror_dir \o <<TarballFilename(pkg.url.segs)>>, None) },
           <<>>, <<>>)

\* generate_package for a GitSource
YarnGit(pkg) ==
    LET repo_name == PathName(pkg.url.segs)
        name == repo_name \o "-" \o pkg.commit
        repo_dir == tmp_root \o <<name>>
        target_tar == relpath(mirror_dir \o <<name>>, repo_dir)
    IN Effect({ add_git_source(UrlStr(pkg.url), pkg.commit, repo_dir) },
              << "mkdir -p " \o PathStr(mirror_dir),
                 "cd " \o PathStr(repo_dir) \o "; git archive --format tar -o "
                       \o target_tar \o " HEAD" >>,
              <<>>)

(***************************************************************************)
(* PnpmModuleProvider.                                                     *)
(***************************************************************************)
_STORE_VERSION == "v10"
tarball_dir == data_root \o <<"pnpm-tarballs">>
store_dir == data_root \o <<"pnpm-store">>
manifest_dest == data_root \o <<"pnpm-manifest.json">>
script_dest == data_root \o <<"populate_pnpm_store.py">>

\* the text of populate_pnpm_store.py, by its first line
script_source == "from __future__ import annotations"

\* package names of the universe hold no "/", which replace() would turn to "-"
tarball_name(pkg) == pkg.name \o "-" \o pkg.version \o ".tgz"

_TarballInfo(pkg) ==
    [tarball_name |-> tarball_name(pkg), name |-> pkg.name,
     version |-> pkg.version, integrity |-> pkg.integrity[1]]

\* generate_package for a ResolvedSource that has an integrity
PnpmResolved(pkg) ==
    Effect({ add_url_source(UrlStr(pkg.url), pkg.integrity[1],
                            tarball_dir \o <<tarball_name(pkg)>>, None) },
           <<>>, <<_TarballInfo(pkg)>>)

\* generate_package for a GitSource
PnpmGit(pkg) ==
    Effect({ add_git_source(UrlStr(pkg.url), pkg.commit,
                            data_root \o <<"git-packages", pkg.name \o "-" \o pkg.commit>>) },
           <<>>, <<>>)

\* json.dumps(..., separators=(',', ':')) of one entry of packages
ManifestEntry(info) ==
    "\"" \o info.tarball_name \o "\":{\"name\":\"" \o info.name
         \o "\",\"version\":\"" \o info.version
         \o "\",\"integrity_hex\":\"" \o info.integrity.digest
         \o "\",\"requires_build\":false}"

RECURSIVE ManifestEntries(_)
\* the entries in the insertion order of the dict, which is that of _tarballs
ManifestEntries(tbs) ==
    IF tbs = <<>> THEN ""
    ELSE IF Len(tbs) = 1 THEN ManifestEntry(tbs[1])
    ELSE ManifestEntry(tbs[1]) \o "," \o ManifestEntries(Tail(tbs))

RECURSIVE DictItems(_)
\* packages[info.tarball_name] = {...} for each info in turn: a dict keeps a
\* key where it was first inserted, with the value written last
DictItems(tbs) ==
    IF tbs = <<>> THEN <<>>
    ELSE LET same == SelectSeq(tbs, LAMBDA t : t.tarball_name = tbs[1].tarball_name)
             rest == SelectSeq(tbs, LAMBDA t : t.tarball_name /= tbs[1].tarball_name)
         IN <<same[Len(same)]>> \o DictItems(rest)

manifest_json(tbs) ==
    "{\"store_version\":\"" \o _STORE_VERSION \o "\",\"packages\":{"
        \o ManifestEntries(DictItems(tbs)) \o "}}"

\* _add_pnpm_config: the command it queues
_add_pnpm_config == "echo \"store-dir=$PWD/" \o PathStr(store_dir) \o "\" >> .npmrc"

\* _finalize: _add_store_population_script and _add_pnpm_config
PnpmFinalize(tbs) ==
    IF tbs = <<>> THEN NoEffect
    ELSE Effect({ add_data_source(manifest_json(tbs), manifest_dest),
                  add_data_source(script_source, script_dest) },
                << "python3 " \o PathStr(script_dest) \o " " \o PathStr(manifest_dest)
                       \o " " \o PathStr(tarball_dir) \o " " \o PathStr(store_dir),
                   _add_pnpm_config >>,
                <<>>)

(***************************************************************************)
(* generate_package of the provider in use.                                *)
(***************************************************************************)
Providers == {"yarn", "pnpm"}

\* a package whose source is a LocalSource; `present` tells whether
\* <lockfile dir>/<path>/package.json is a file
LocalSource(name, version, path, present) ==
    [name |-> name, version |-> version, kind |-> "local",
     url |-> Url("", <<path>>), integrity |-> <<>>, commit |-> "",
     present |-> present]

\* _handle_electron: one file source per architecture, then the checksum
\* file itself; the digests are those SHASUMS256.txt lists
electron_arches_to_flatpak ==
    << <<"ia32", "i386">>, <<"x64", "x86_64">>, <<"armv7l", "arm">>,
       <<"arm64", "aarch64">> >>

_handle_electron(pkg) ==
    LET base_url == "https://github.com/electron/electron/releases/download/v"
                       \o pkg.version
        electron_cache_dir == data_root \o <<"electron-cache">>
        binary_filename(arch) == "electron-v" \o pkg.version \o "-linux-" \o arch \o ".zip"
    IN Effect({ add_url_source(base_url \o "/" \o binary_filename(a[1]),
                               Integrity("sha256", "5" \o binary_filename(a[1])),
                               electron_cache_dir \o <<binary_filename(a[1])>>,
                               <<a[2]>>) : a \in Range(electron_arches_to_flatpak) }
              \cup { add_url_source(base_url \o "/SHASUMS256.txt",
                                    Integrity("sha256", "5SHASUMS256.txt"),
                                    electron_cache_dir
                                        \o <<"SHASUMS256.txt-" \o pkg.version>>,
                                    None) },
              <<>>, <<>>)

\* the names generate_special_sources has a handler for (of the universe)
HasHandler(pkg) == pkg.name = "electron"

\* generate_special_sources: the handler keyed by the package's name
generate_special_sources(pkg) ==
    IF HasHandler(pkg) THEN _handle_electron(pkg) ELSE NoEffect

\* one call's adds after another's
EffectJoin(e, f) ==
    Effect(e.sources \cup f.sources, e.commands \o f.commands,
           e.tarballs \o f.tarballs)

\* the call suspends: yarn awaits the fetch of a missing integrity, and a
\* handler awaits the fetch of its checksum file (no package of the universe
\* awaits both)
Suspends(prov, pkg) ==
    \/ prov = "yarn" /\ pkg.kind = "resolved" /\ pkg.integrity = <<>>
    \/ prov = "yarn" /\ pkg.kind = "local" /\ pkg.present /\ HasHandler(pkg)

\* the call raises before it adds anything: pnpm asserts the integrity, yarn
\* asserts that the local path holds a package.json
Raises(prov, pkg) ==
    \/ prov = "pnpm" /\ pkg.kind = "resolved" /\ pkg.integrity = <<>>
    \/ prov = "yarn" /\ pkg.kind = "local" /\ ~pkg.present

\* what a call that neither raises nor fails its fetch adds
generate_package(prov, pkg) ==
    IF prov = "yarn"
    THEN EffectJoin(IF pkg.kind = "resolved"
                    THEN YarnResolved(pkg, retrieve_integrity(pkg))
                    ELSE IF pkg.kind = "git" THEN YarnGit(pkg)
                    ELSE NoEffect,
                    generate_special_sources(pkg))
    ELSE IF pkg.kind = "resolved"
         THEN EffectJoin(PnpmResolved(pkg), generate_special_sources(pkg))
         ELSE IF pkg.kind = "git" THEN PnpmGit(pkg)
         ELSE NoEffect

\* ModuleProvider.__exit__ when no exception is in flight
ProviderExit(prov, tbs) ==
    IF prov = "pnpm" THEN PnpmFinalize(tbs) ELSE NoEffect

(***************************************************************************)
(* json.dumps(value, indent=4): the length of what it writes.              *)
(***************************************************************************)
\* the _tarballs lists the packages above can give
TarballLists ==
    LET infos == { _TarballInfo(pkg) :
                     pkg \in { q \in PackageUniverse \cup {PkgC} :
                                 q.kind = "resolved" /\ q.integrity /= <<>> } }
    IN UNION { InjectiveSeqs(infos, n) : n \in 1..MaxPkgs }

\* the characters of s that json.dumps writes as two: its double quotes.
\* Of the listed strings only the .npmrc command has any; a string outside
\* the list is a manifest_json text, with 8 around its entries and 16 in each
Escapes(s) ==
    IF s \in DOMAIN StrIndex
    THEN IF s = _add_pnpm_config THEN 2 ELSE 0
    ELSE LET tbs == CHOOSE t \in TarballLists : manifest_json(t) = s
         IN 8 + 16 * Len(DictItems(tbs))

JsonStrLen(s) == Len(s) + 2 + Escapes(s)

RECURSIVE JsonItemsLen(_, _)
\* the items of a non-empty list, each on a line of its own at the given indent
JsonItemsLen(t, indent) ==
    IF t = <<>> THEN 0
    ELSE 1 + indent + JsonStrLen(t[1]) + (IF Len(t) > 1 THEN 1 ELSE 0)
         + JsonItemsLen(Tail(t), indent)

JsonValueLen(k, v, indent) ==
    IF IsTupleKey(k)
    THEN IF v = <<>> THEN 2
         ELSE 1 + JsonItemsLen(v, indent + JSON_INDENT) + 1 + indent + 1
    ELSE JsonStrLen(v)

RECURSIVE JsonPairsLen(_, _)
\* the members of an object, each starting a line of its own at the given indent
JsonPairsLen(src, indent) ==
    IF src = <<>> THEN 0
    ELSE 1 + indent + JsonStrLen(src[1][1]) + 2
         + JsonValueLen(src[1][1], src[1][2], indent)
         + (IF Len(src) > 1 THEN 1 ELSE 0)
         + JsonPairsLen(Tail(src), indent)

\* len('\n'.join(json.dumps([source], indent=4).splitlines()[1:-1]))
SourceJsonLen(src) ==
    JSON_INDENT + 1 + JsonPairsLen(src, 2 * JSON_INDENT) + 1 + JSON_INDENT + 1

RECURSIVE SumJsonLen(_)
SumJsonLen(list) ==
    IF list = <<>> THEN 0 ELSE SourceJsonLen(list[1]) + SumJsonLen(Tail(list))

\* json.dumps(list, indent=4) without its first and last line (the brackets)
ChunkBodyLen(list) ==
    IF list = <<>> THEN 0
    ELSE SumJsonLen(list) + 2 * (Len(list) - 1)

\* len(json.dumps(list, indent=4)): what fp.tell() returns after json.dump
FileLen(list) == IF list = <<>> THEN 2 ELSE ChunkBodyLen(list) + 4

(***************************************************************************)
(* split_sources: the chunks it yields, in order.  SplitLoop is the for    *)
(* loop from the sources still to come, with the loop's current list and   *)
(* current_size.                                                           *)
(***************************************************************************)
RECURSIVE SplitLoop(_, _, _, _)
SplitLoop(rest, current, current_size, size) ==
    IF rest = <<>>
    THEN IF current /= <<>> THEN <<current>> ELSE <<>>
    ELSE LET source_json_len == SourceJsonLen(rest[1])
         IN IF current_size + source_json_len >= size
            THEN <<current>> \o SplitLoop(Tail(rest), <<rest[1]>>,
                                          BASE_CURRENT_SIZE + source_json_len, size)
            ELSE SplitLoop(Tail(rest), Append(current, rest[1]),
                           current_size + source_json_len, size)

RECURSIVE SplitLoopNoTail(_, _, _, _)
\* split_sources without the final "if current: yield current"
SplitLoopNoTail(rest, current, current_size, size) ==
    IF rest = <<>>
    THEN <<>>
    ELSE LET source_json_len == SourceJsonLen(rest[1])
         IN IF current_size + source_json_len >= size
            THEN <<current>> \o SplitLoopNoTail(Tail(rest), <<rest[1]>>,
                                          BASE_CURRENT_SIZE + source_json_len, size)
            ELSE SplitLoopNoTail(Tail(rest), Append(current, rest[1]),
                           current_size + source_json_len, size)

SplitSourcesNoTail(srcs, size) ==
    SplitLoopNoTail(ordered_sources(srcs), <<>>, BASE_CURRENT_SIZE, size)

split_sources(srcs, size) ==
    SplitLoop(ordered_sources(srcs), <<>>, BASE_CURRENT_SIZE, size)

RECURSIVE Concat(_)
Concat(lists) == IF lists = <<>> THEN <<>> ELSE lists[1] \o Concat(Tail(lists))

(***************************************************************************)
(* The ManifestGenerator driven through its interface: producers add       *)
(* sources and queue commands, the generator is finalized (__exit__), and  *)
(* the sources are written as one file or split.                           *)
(***************************************************************************)
GenIntegrity == [algorithm |-> "sha512", digest |-> "d1"]
GenCommands == {"k1", "k2"}

GenSourceArgs ==
    { add_url_source("u1", GenIntegrity, <<"f1">>, None) }
    \cup { add_url_source("u2", GenIntegrity, data_root \o <<"f1">>, <<"x86_64">>) }
    \cup { add_git_source("g1", "c1", None) }
    \cup { add_data_source("x1", <<"f2">>) }
    \cup { add_script_source(<<"k1">>, <<"p1">>) }

\* no request is under way
ReqIdle ==
    /\ req_op = "none"
    /\ req_cachable = FALSE
    /\ req_retries = 0
    /\ req_size = 1
    /\ req_content = <<>>
    /\ req_pc = "idle"
    /\ req_i = 0
    /\ req_pos = 0
    /\ req_consumed = <<>>
    /\ req_exc = -1
    /\ req_failed = {}
    /\ req_temp = <<>>
    /\ req_bucket = <<>>
    /\ req_calls = 0

\* NpmModuleProvider has generated nothing
NpmIdle ==
    /\ npm_lock = <<>>
    /\ npm_dist = [kind |-> "none", value |-> ""]
    /\ npm_pc = "idle"
    /\ npm_exc = "none"
    /\ npm_resolved = <<>>
    /\ npm_index = {}

\* no lockfile is being processed
LfIdle ==
    /\ lf_dialect = "none"
    /\ lf_no_devel = FALSE
    /\ lf_version = <<>>
    /\ lf_tree = <<>>
    /\ lf_pc = "idle"
    /\ lf_exc = "none"
    /\ lf_lockfile = <<>>
    /\ lf_yielded = <<>>
    /\ lf_stderr = <<>>

\* no git specifier has been parsed
GitIdle ==
    /\ git_spec = <<>>
    /\ git_from = ""
    /\ git_pc = "idle"
    /\ git_source = <<>>
    /\ git_new_url = <<>>
    /\ git_sources = <<>>
    /\ git_data = <<>>

\* the parts other than the generator and its run are at rest
NrIdle ==
    /\ nr_registry = <<>>
    /\ nr_requests = <<>>
    /\ nr_used = <<>>
    /\ nr_waiters = <<>>
    /\ nr_stage = <<>>
    /\ nr_lockfiles = {}
    /\ nr_git = <<>>
    /\ nr_entries = <<>>
    /\ nr_data = <<>>
    /\ nr_no_autopatch = FALSE
    /\ nr_pc = "idle"

SvIdle ==
    /\ sv_a = <<>>
    /\ sv_b = <<>>
    /\ sv_lt = <<>>

OthersIdle == ReqIdle /\ NpmIdle /\ LfIdle /\ GitIdle /\ NrIdle /\ SvIdle

\* no generator run is under way
RunIdle ==
    /\ provider = "none"
    /\ packages = <<>>
    /\ max_parallel = 1
    /\ sem_value = 1
    /\ sem_waiters = <<>>
    /\ task_pc = <<>>
    /\ cancel_req = {}
    /\ fetch_ok = <<>>
    /\ ready = <<>>
    /\ done_q = <<>>
    /\ run_pc = "idle"
    /\ taken = 0
    /\ run_exc = 0
    /\ first_failed = 0
    /\ tarballs = <<>>
    /\ late_adds = 0
    /\ at_raise = {}
    /\ run_no = 1
    /\ first_manifest = <<>>
    /\ first_packages = <<>>
    /\ first_parallel = 1
    /\ processing = {}

\* a manifest generator just constructed, nothing added
GenIdle ==
    /\ sources = {}
    /\ commands = <<>>
    /\ split_size = DEFAULT_SPLIT_SIZE_KB * 1000
    /\ gen_pc = "open"
    /\ manifest = <<>>
    /\ chunks = <<>>
    /\ warnings = <<>>

InitGen ==
    /\ sources = {}
    /\ commands = <<>>
    /\ split_size = DEFAULT_SPLIT_SIZE_KB * 1000
    /\ gen_pc = "open"
    /\ manifest = <<>>
    /\ chunks = <<>>
    /\ warnings = <<>>
    /\ RunIdle
    /\ OthersIdle

\* _add_source, reached through one of the add_* methods
GenAddSource ==
    /\ gen_pc = "open"
    /\ \E s \in GenSourceArgs :
          /\ Cardinality(sources \cup {s}) <= MaxSources
          /\ sources' = sources \cup {s}
    /\ UNCHANGED <<commands, split_size, gen_pc, manifest, chunks, warnings>>
    /\ UNCHANGED run_vars
    /\ UNCHANGED other_vars

GenAddCommand ==
    /\ gen_pc = "open"
    /\ Len(commands) < MaxCommands
    /\ \E c \in GenCommands : commands' = Append(commands, c)
    /\ UNCHANGED <<sources, split_size, gen_pc, manifest, chunks, warnings>>
    /\ UNCHANGED run_vars
    /\ UNCHANGED other_vars

\* __exit__
GenExit ==
    /\ gen_pc = "open"
    /\ sources' = _finalize(sources, commands)
    /\ gen_pc' = "finalized"
    /\ UNCHANGED <<commands, split_size, manifest, chunks, warnings>>
    /\ UNCHANGED run_vars
    /\ UNCHANGED other_vars

\* main without --split: one file, and a warning when it reaches the limit
GenWrite ==
    /\ gen_pc = "finalized"
    /\ manifest' = ordered_sources(sources)
    /\ warnings' = IF FileLen(ordered_sources(sources)) >= split_size
                   THEN Append(warnings, "too large")
                   ELSE warnings
    /\ gen_pc' = "written"
    /\ UNCHANGED <<sources, commands, split_size, chunks>>
    /\ UNCHANGED run_vars
    /\ UNCHANGED other_vars

\* main with --split: one file per chunk of split_sources()
GenSplit ==
    /\ gen_pc = "finalized"
    /\ \E size \in 1..MaxSplitSize :
          /\ split_size' = size
          /\ chunks' = split_sources(sources, size)
    /\ gen_pc' = "split"
    /\ UNCHANGED <<sources, commands, manifest, warnings>>
    /\ UNCHANGED run_vars
    /\ UNCHANGED other_vars

NextGen == GenAddSource \/ GenAddCommand \/ GenExit \/ GenWrite \/ GenSplit

SpecGen == InitGen /\ [][NextGen]_vars

(***************************************************************************)
(* Properties of the ManifestGenerator, checked under SpecGen.             *)
(***************************************************************************)
ChunkIndexes == DOMAIN chunks

\* the sources of type shell
ShellSources(srcs) == { s \in srcs : s[1] = <<"type", "shell">> }

Last(list) == list[Len(list)]

\* C4: the chunks of split_sources(), concatenated in the order yielded, are
\* exactly ordered_sources(): nothing lost, duplicated or reordered.
C4_SplitConcatIsOrdered ==
    gen_pc = "split" => Concat(chunks) = ordered_sources(sources)

C4_Witness ==
    /\ gen_pc = "split"
    /\ Len(chunks) >= 2
    /\ \E i \in ChunkIndexes : Len(chunks[i]) >= 2

\* C5: a chunk that holds more than one source, serialized on its own with
\* indent 4 and without its bracket lines, is no longer than split_size.
C5_ChunkWithinLimit ==
    gen_pc = "split" =>
        \A i \in ChunkIndexes :
            Len(chunks[i]) > 1 => ChunkBodyLen(chunks[i]) <= split_size

\* C6: a source whose own serialized size exceeds split_size is yielded in a
\* chunk of its own, and splitting writes a warning for it.
C6_OversizedAloneAndWarned ==
    gen_pc = "split" =>
        \A s \in sources :
            SourceJsonLen(s) > split_size =>
                /\ \E i \in ChunkIndexes : chunks[i] = <<s>>
                /\ warnings /= <<>>

\* C7: once the generator is finalized, the commands queued by add_command
\* are held, all of them and in insertion order, by exactly one shell source,
\* which is the last of ordered_sources(); with no command queued there is
\* no shell source.
C7_CommandsFoldedLast ==
    gen_pc /= "open" =>
        IF commands = <<>>
        THEN ShellSources(sources) = {}
        ELSE /\ ShellSources(sources) =
                    { << <<"type", "shell">>, <<"commands", commands>> >> }
             /\ Last(ordered_sources(sources)) =
                    << <<"type", "shell">>, <<"commands", commands>> >>

C7_Witness ==
    /\ gen_pc = "finalized"
    /\ commands = <<"k2", "k1">>
    /\ \E s \in sources : s[1] = <<"type", "script">>
    /\ Cardinality(sources) >= 3

(***************************************************************************)
(* GeneratorProgress on the asyncio event loop.  ready is the loop's FIFO  *)
(* of callbacks: <<"task", i>> steps task i, <<"done", i>> is the          *)
(* completion callback as_completed put on task i, <<"run", 0>> steps the  *)
(* main task inside run().                                                 *)
(***************************************************************************)
Tasks == DOMAIN task_pc

Pending(pc) == pc \in {"created", "wait_sem", "sem_woken", "fetch", "fetched"}

PackageLists == UNION { InjectiveSeqs(PackageUniverse, n) : n \in 1..MaxPkgs }

\* parallel_limit, with the tasks its release() calls have woken so far
CurSem == [value |-> sem_value, waiters |-> sem_waiters, woken |-> <<>>]

\* the future task w waits on in acquire() is done (woken or cancelled)
FutDone(w, sem) ==
    task_pc[w] /= "wait_sem" \/ w \in cancel_req \/ w \in Range(sem.woken)

\* the future task w waits on in acquire() is cancelled
FutCancelled(w) == task_pc[w] = "wait_sem" /\ w \in cancel_req

\* Semaphore.locked
NeverLocked(value, waiters) == FALSE

locked(value, waiters) ==
    value = 0 \/ \E k \in DOMAIN waiters : ~FutCancelled(waiters[k])

\* Semaphore._wake_up_next: which of the waiters that are not done it wakes
WakeUpLast(candidates) == candidates[Len(candidates)]

_wake_up_next(candidates) == Head(candidates)

WakeUpNext(sem) ==
    LET NotDone(w) == ~FutDone(w, sem)
        candidates == SelectSeq(sem.waiters, NotDone)
    IN IF candidates = <<>> THEN sem
       ELSE [sem EXCEPT !.value = @ - 1,
                        !.woken = Append(@, _wake_up_next(candidates))]

\* Semaphore.release
release(sem) == WakeUpNext([sem EXCEPT !.value = @ + 1])

\* acquire(): self._waiters.remove(fut)
RemoveWaiter(sem, i) ==
    LET Other(w) == w /= i
    IN [sem EXCEPT !.waiters = SelectSeq(@, Other)]

\* acquire() resumed by release(): remove the future, pass a free slot on
AcquireWoken(sem, i) ==
    LET r == RemoveWaiter(sem, i)
    IN IF r.value > 0 THEN WakeUpNext(r) ELSE r

\* the tasks for which generate_package has been entered and is not over
InFlight == { i \in Tasks : task_pc[i] \in {"fetch", "fetched"} }

\* run(): for task in tasks: task.cancel()
CancelInFlightOnly(pcs) == { i \in DOMAIN pcs : pcs[i] \in {"fetch", "fetched"} }

\* a run() that cancels no task when one has failed
CancelNone(pcs) == {}

TasksToCancel(pcs) == DOMAIN pcs

\* the end of a step of task i: the semaphore as the step left it, the tasks
\* it woke and its own completion callback scheduled, its adds applied.
\* _generate adds the package to `processing` once it holds the semaphore
\* and removes it after generate_package has returned; set.remove raises
\* KeyError, inside the async with, when the package is not in the set.
TaskStepEnd(i, sem, pc, eff) ==
    LET entered == task_pc[i] \in {"created", "sem_woken"}
                     /\ pc \in {"fetch", "ok", "exc"}
        added == IF entered THEN processing \cup {packages[i]} ELSE processing
        end_pc == IF pc = "ok" /\ packages[i] \notin added THEN "exc" ELSE pc
    IN
    /\ sem_value' = sem.value
    /\ sem_waiters' = sem.waiters
    /\ task_pc' = [k \in Tasks |->
                      IF k = i THEN end_pc
                      ELSE IF k \in Range(sem.woken) THEN "sem_woken"
                      ELSE task_pc[k]]
    /\ ready' = Tail(ready)
                  \o [j \in DOMAIN sem.woken |-> <<"task", sem.woken[j]>>]
                  \o (IF Pending(pc) THEN <<>> ELSE << <<"done", i>> >>)
    /\ processing' = IF end_pc = "ok" THEN added \ {packages[i]} ELSE added
    /\ sources' = sources \cup eff.sources
    /\ commands' = commands \o eff.commands
    /\ tarballs' = tarballs \o eff.tarballs
    /\ late_adds' = IF run_pc \in {"returned", "raised"} /\ eff /= NoEffect
                    THEN late_adds + 1 ELSE late_adds
    /\ first_failed' = IF pc = "exc" /\ first_failed = 0 THEN i ELSE first_failed
    /\ UNCHANGED <<split_size, gen_pc, manifest, chunks, warnings>>
    /\ UNCHANGED other_vars
    /\ UNCHANGED <<provider, packages, max_parallel, cancel_req, fetch_ok, done_q,
                   run_pc, taken, run_exc, at_raise, run_no, first_manifest,
                   first_packages, first_parallel>>

Init ==
    /\ sources = {}
    /\ commands = <<>>
    /\ split_size = DEFAULT_SPLIT_SIZE_KB * 1000
    /\ gen_pc = "open"
    /\ manifest = <<>>
    /\ chunks = <<>>
    /\ warnings = <<>>
    /\ provider \in Providers
    /\ packages \in PackageLists
    /\ max_parallel \in 1..MaxParallel
    /\ sem_value = max_parallel
    /\ sem_waiters = <<>>
    /\ task_pc = <<>>
    /\ cancel_req = {}
    /\ fetch_ok = <<>>
    /\ ready = <<>>
    /\ done_q = <<>>
    /\ run_pc = "init"
    /\ taken = 0
    /\ run_exc = 0
    /\ first_failed = 0
    /\ tarballs = <<>>
    /\ late_adds = 0
    /\ at_raise = {}
    /\ run_no = 1
    /\ first_manifest = <<>>
    /\ first_packages = <<>>
    /\ first_parallel = 1
    /\ processing = {}
    /\ OthersIdle

\* run() up to its first await: one task per package, in iteration order
RunStart ==
    /\ run_pc = "init"
    /\ task_pc' = [i \in DOMAIN packages |-> "created"]
    /\ fetch_ok' = [i \in DOMAIN packages |-> TRUE]
    /\ ready' = [i \in DOMAIN packages |-> <<"task", i>>]
    /\ run_pc' = "waiting"
    /\ UNCHANGED gen_vars
    /\ UNCHANGED other_vars
    /\ UNCHANGED <<processing, provider, packages, max_parallel, sem_value,
                   sem_waiters,
                   cancel_req, done_q, taken, run_exc, first_failed, tarballs,
                   late_adds, at_raise, run_no, first_manifest, first_packages,
                   first_parallel>>

\* _generate: async with self.parallel_limit, the semaphore being locked
TaskBlock(i) ==
    /\ ready /= <<>> /\ Head(ready) = <<"task", i>>
    /\ i \notin cancel_req
    /\ task_pc[i] = "created"
    /\ locked(sem_value, sem_waiters)
    /\ TaskStepEnd(i, [CurSem EXCEPT !.waiters = Append(@, i)], "wait_sem", NoEffect)

\* _generate: the semaphore acquired, generate_package up to its first
\* suspension or, when it has none, to its end and the release
TaskGenerate(i) ==
    /\ ready /= <<>> /\ Head(ready) = <<"task", i>>
    /\ i \notin cancel_req
    /\ \/ task_pc[i] = "created" /\ ~locked(sem_value, sem_waiters)
       \/ task_pc[i] = "sem_woken"
    /\ LET sem == IF task_pc[i] = "created"
                  THEN [CurSem EXCEPT !.value = @ - 1]
                  ELSE AcquireWoken(CurSem, i)
       IN IF Suspends(provider, packages[i])
          THEN TaskStepEnd(i, sem, "fetch", NoEffect)
          ELSE IF Raises(provider, packages[i])
          THEN TaskStepEnd(i, release(sem), "exc", NoEffect)
          ELSE TaskStepEnd(i, release(sem), "ok",
                           generate_package(provider, packages[i]))

\* the fetch a task awaits completes or fails
FetchDone(i, ok) ==
    /\ i \in Tasks
    /\ task_pc[i] = "fetch"
    /\ i \notin cancel_req
    /\ task_pc' = [task_pc EXCEPT ![i] = "fetched"]
    /\ fetch_ok' = [fetch_ok EXCEPT ![i] = ok]
    /\ ready' = Append(ready, <<"task", i>>)
    /\ UNCHANGED gen_vars
    /\ UNCHANGED other_vars
    /\ UNCHANGED <<processing, provider, packages, max_parallel, sem_value,
                   sem_waiters,
                   cancel_req, done_q, run_pc, taken, run_exc, first_failed,
                   tarballs, late_adds, at_raise, run_no, first_manifest,
                   first_packages, first_parallel>>

\* generate_package resumed with the outcome of its fetch
TaskResume(i) ==
    /\ ready /= <<>> /\ Head(ready) = <<"task", i>>
    /\ i \notin cancel_req
    /\ task_pc[i] = "fetched"
    /\ IF fetch_ok[i]
       THEN TaskStepEnd(i, release(CurSem), "ok",
                        generate_package(provider, packages[i]))
       ELSE TaskStepEnd(i, release(CurSem), "exc", NoEffect)

\* a cancelled task is stepped: CancelledError is raised at its await
TaskCancelled(i) ==
    /\ ready /= <<>> /\ Head(ready) = <<"task", i>>
    /\ i \in cancel_req
    /\ Pending(task_pc[i])
    /\ LET sem == CASE task_pc[i] = "created" -> CurSem
                    [] task_pc[i] = "wait_sem" -> RemoveWaiter(CurSem, i)
                    [] task_pc[i] = "sem_woken" -> release(RemoveWaiter(CurSem, i))
                    [] OTHER -> release(CurSem)
       IN TaskStepEnd(i, sem, "cancelled", NoEffect)

\* as_completed's _on_completion: the task is queued for run(), which is
\* woken if it waits in done.get()
OnCompletion(i) ==
    /\ ready /= <<>> /\ Head(ready) = <<"done", i>>
    /\ done_q' = Append(done_q, i)
    /\ IF run_pc = "waiting"
       THEN run_pc' = "woken" /\ ready' = Append(Tail(ready), <<"run", 0>>)
       ELSE run_pc' = run_pc /\ ready' = Tail(ready)
    /\ UNCHANGED gen_vars
    /\ UNCHANGED other_vars
    /\ UNCHANGED <<processing, provider, packages, max_parallel, sem_value,
                   sem_waiters,
                   task_pc, cancel_req, fetch_ok, taken, run_exc, first_failed,
                   tarballs, late_adds, at_raise, run_no, first_manifest,
                   first_packages, first_parallel>>

\* the positions of done_q whose task did not end well
FailedInQueue == { k \in DOMAIN done_q : task_pc[done_q[k]] /= "ok" }

FirstOf(S) == CHOOSE k \in S : \A j \in S : k <= j

\* run() takes every queued result and awaits the next one
RunContinue ==
    /\ ready /= <<>> /\ Head(ready) = <<"run", 0>>
    /\ FailedInQueue = {}
    /\ taken + Len(done_q) < Len(packages)
    /\ taken' = taken + Len(done_q)
    /\ done_q' = <<>>
    /\ run_pc' = "waiting"
    /\ ready' = Tail(ready)
    /\ UNCHANGED gen_vars
    /\ UNCHANGED other_vars
    /\ UNCHANGED <<processing, provider, packages, max_parallel, sem_value,
                   sem_waiters,
                   task_pc, cancel_req, fetch_ok, run_exc, first_failed,
                   tarballs, late_adds, at_raise, run_no, first_manifest,
                   first_packages, first_parallel>>

\* run() takes the last results and returns; main leaves the with blocks
\* (the provider's __exit__, then the generator's) and writes the sources
RunReturn ==
    /\ ready /= <<>> /\ Head(ready) = <<"run", 0>>
    /\ FailedInQueue = {}
    /\ taken + Len(done_q) = Len(packages)
    /\ taken' = taken + Len(done_q)
    /\ done_q' = <<>>
    /\ run_pc' = "returned"
    /\ ready' = Tail(ready)
    /\ LET eff == ProviderExit(provider, tarballs)
           cmds == commands \o eff.commands
           srcs == _finalize(sources \cup eff.sources, cmds)
       IN /\ commands' = cmds
          /\ sources' = srcs
          /\ manifest' = ordered_sources(srcs)
          /\ warnings' = IF FileLen(ordered_sources(srcs)) >= split_size
                         THEN Append(warnings, "too large")
                         ELSE warnings
    /\ gen_pc' = "written"
    /\ UNCHANGED <<split_size, chunks>>
    /\ UNCHANGED other_vars
    /\ UNCHANGED <<processing, provider, packages, max_parallel, sem_value,
                   sem_waiters,
                   task_pc, cancel_req, fetch_ok, run_exc, first_failed,
                   tarballs, late_adds, at_raise, run_no, first_manifest,
                   first_packages, first_parallel>>

\* run() takes a result that raises: it cancels the tasks and re-raises;
\* main leaves the with blocks with the exception and writes nothing
RunRaise ==
    /\ ready /= <<>> /\ Head(ready) = <<"run", 0>>
    /\ FailedInQueue /= {}
    /\ LET k == FirstOf(FailedInQueue)
           cancelled == { i \in TasksToCancel(task_pc) : Pending(task_pc[i]) }
           \* cancelling the future a task waits on schedules the task
           Waiting(i) == i \in cancelled /\ task_pc[i] \in {"wait_sem", "fetch"}
       IN /\ taken' = taken + k
          /\ done_q' = SubSeq(done_q, k + 1, Len(done_q))
          /\ run_exc' = done_q[k]
          /\ cancel_req' = cancelled
          /\ ready' = Tail(ready)
                        \o [j \in DOMAIN SelectSeq([i \in Tasks |-> i], Waiting) |->
                               <<"task", SelectSeq([i \in Tasks |-> i], Waiting)[j]>>]
    /\ at_raise' = { i \in Tasks : Pending(task_pc[i]) }
    /\ run_pc' = "raised"
    /\ sources' = _finalize(sources, commands)
    /\ gen_pc' = "finalized"
    /\ UNCHANGED <<commands, split_size, manifest, chunks, warnings>>
    /\ UNCHANGED other_vars
    /\ UNCHANGED <<processing, provider, packages, max_parallel, sem_value,
                   sem_waiters,
                   task_pc, fetch_ok, first_failed, tarballs, late_adds, run_no,
                   first_manifest, first_packages, first_parallel>>

\* the generator is run again on the same lockfile: the same packages, in
\* the iteration order their set has in the new process
NewRun ==
    /\ run_pc = "returned"
    /\ run_no = 1
    /\ ready = <<>>
    /\ run_no' = 2
    /\ first_manifest' = manifest
    /\ first_packages' = packages
    /\ first_parallel' = max_parallel
    /\ packages' \in InjectiveSeqs(Range(packages), Len(packages))
    /\ max_parallel' \in 1..MaxParallel
    /\ sem_value' = max_parallel'
    /\ sources' = {}
    /\ commands' = <<>>
    /\ gen_pc' = "open"
    /\ manifest' = <<>>
    /\ warnings' = <<>>
    /\ sem_waiters' = <<>>
    /\ task_pc' = <<>>
    /\ cancel_req' = {}
    /\ fetch_ok' = <<>>
    /\ done_q' = <<>>
    /\ run_pc' = "init"
    /\ taken' = 0
    /\ tarballs' = <<>>
    /\ processing' = {}
    /\ UNCHANGED <<split_size, chunks, provider, ready, run_exc, first_failed,
                   late_adds, at_raise>>
    /\ UNCHANGED other_vars

Next ==
    \/ RunStart
    \/ \E i \in Tasks : TaskBlock(i)
    \/ \E i \in Tasks : TaskGenerate(i)
    \/ \E i \in Tasks, ok \in BOOLEAN : FetchDone(i, ok)
    \/ \E i \in Tasks : TaskResume(i)
    \/ \E i \in Tasks : TaskCancelled(i)
    \/ \E i \in Tasks : OnCompletion(i)
    \/ RunContinue
    \/ RunReturn
    \/ RunRaise

\* one run of the generator
Spec == Init /\ [][Next]_vars

NextRuns == Next \/ NewRun

\* two runs of the generator on the same lockfile, one after the other
SpecRuns == Init /\ [][NextRuns]_vars

(***************************************************************************)
(* Properties of a generator run, checked under Spec, and of two runs,     *)
(* checked under SpecRuns.                                                 *)
(***************************************************************************)
\* the second run has written its manifest
SecondRunWritten == run_no = 2 /\ run_pc = "returned"

C2_SameManifestAcrossRuns ==
    SecondRunWritten => manifest = first_manifest

\* tasks i and j are for two packages with the same url and integrity
SameFile(i, j) ==
    /\ i /= j
    /\ packages[i].kind = "resolved" /\ packages[j].kind = "resolved"
    /\ packages[i].url = packages[j].url
    /\ retrieve_integrity(packages[i]) = retrieve_integrity(packages[j])

\* the file sources for the url of task i
FileSources(i) ==
    { src \in sources : /\ src[1] = <<"type", "file">>
                        /\ src[2] = <<"url", UrlStr(packages[i].url)>> }

BothGenerated(i, j) == task_pc[i] = "ok" /\ task_pc[j] = "ok"

CanEnter(i) ==
    /\ ready /= <<>> /\ Head(ready) = <<"task", i>>
    /\ i \notin cancel_req
    /\ \/ task_pc[i] = "created" /\ ~locked(sem_value, sem_waiters)
       \/ task_pc[i] = "sem_woken"

\* C8: the generate_package calls entered and not yet over are never more
\* than max_parallel, and a task enters only while they are fewer.
C8_InFlightBounded ==
    /\ Cardinality(InFlight) <= max_parallel
    /\ \A i \in Tasks : CanEnter(i) => Cardinality(InFlight) < max_parallel

C8_Witness ==
    /\ Cardinality(InFlight) = max_parallel
    /\ \E k \in DOMAIN sem_waiters :
          /\ task_pc[sem_waiters[k]] = "wait_sem"
          /\ Suspends(provider, packages[sem_waiters[k]])

\* C9: when run() has raised, the exception is that of the task that failed
\* first, and every other task is over or has been cancelled, the ones
\* waiting for the semaphore as much as the ones inside generate_package.
C9_CancelAllRaiseFirst ==
    run_pc = "raised" =>
        /\ run_exc = first_failed
        /\ task_pc[run_exc] = "exc"
        /\ \A i \in Tasks \ {run_exc} : Pending(task_pc[i]) => i \in cancel_req

C9_Witness ==
    /\ run_pc = "raised"
    /\ \E i \in cancel_req : task_pc[i] = "wait_sem"
    /\ \E i \in cancel_req : task_pc[i] = "fetch"

\* C10: at the moment run() raises every other task is over, and no task
\* adds a source or a command once run() is over.
C10_JoinedBeforeRaise ==
    run_pc = "raised" => at_raise = {} /\ late_adds = 0

\* C15: a package whose resolved source has no integrity gets a file source
\* carrying the digest obtained by fetching its url: its generate_package
\* call fails only when that fetch fails, and once the call is over the
\* generator holds a file source of the url with the fetched digest.
C15_MissingIntegrityFetched ==
    \A i \in Tasks :
        (packages[i].kind = "resolved" /\ packages[i].integrity = <<>>)
        => /\ task_pc[i] = "exc" => ~fetch_ok[i]
           /\ task_pc[i] = "ok"
                 => \E src \in FileSources(i) :
                        src[3] = << RemoteIntegrity(packages[i].url).algorithm,
                                    RemoteIntegrity(packages[i].url).digest >>

(***************************************************************************)
(* Requests: read_all and read_parts with their retry loop and the cache   *)
(* bucket of the URL; RemoteUrlMetadata.get as the consumer of read_parts. *)
(***************************************************************************)

Bytes == {1, 2}

\* the contents a URL can serve: every byte string of at most MaxBytes bytes
Contents == UNION {[1..n -> Bytes] : n \in 0..MaxBytes}

RECURSIVE Digest(_)
\* IntegrityBuilder: the digest of the bytes fed to update(), in order; two
\* different byte strings have different digests
Digest(bs) ==
    IF bs = <<>> THEN 1
    ELSE Head(bs) + 3 * Digest(Tail(bs))

\* RemoteUrlMetadata.get: the digest and the count of the parts received
RemoteUrlMetadata_get(parts) == [integrity |-> Digest(parts), size |-> Len(parts)]

\* the test of the except clause: the attempt that failed is the last one
IsLastAttempt(i, retries) == i = retries

\* BucketWriter.__exit__ that seals whatever was written
ExitSealsAlways(temp, bucket, failed) == <<temp>>

\* BucketWriter.__exit__: seal() when the block ended normally, cancel() when
\* it ended with an exception; (cache of the null kind: nothing is kept)
BucketWriter_exit(temp, bucket, failed) ==
    IF failed THEN bucket ELSE <<temp>>

\* what open_write leaves in the bucket of the cache in use
AfterWrite(cachable, temp, bucket, failed) ==
    IF cachable THEN BucketWriter_exit(temp, bucket, failed) ELSE bucket

\* __get_cache_bucket(...).open_read(): None unless a cache is in use and the
\* bucket is complete
open_read(cachable, bucket) == IF cachable THEN bucket ELSE None

\* a call can be made: none is under way
ReqCallable ==
    /\ req_pc \in {"idle", "returned", "raised", "cancelled"}
    /\ req_calls < MaxCalls

\* the arguments of a call and the fresh locals
ReqEnter(op, cachable, size) ==
    /\ ReqCallable
    /\ req_op' = op
    /\ req_cachable' = cachable
    /\ req_size' = size
    /\ req_calls' = req_calls + 1
    /\ req_failed' = {}
    /\ req_temp' = <<>>
    /\ req_pos' = 0
    /\ UNCHANGED <<req_retries, req_content, outside_req>>

InitReq ==
    /\ GenIdle
    /\ RunIdle
    /\ NpmIdle
    /\ LfIdle
    /\ GitIdle
    /\ NrIdle
    /\ SvIdle
    /\ req_op = "none"
    /\ req_cachable = FALSE
    /\ req_retries \in 0..MaxRetries
    /\ req_size = 1
    /\ req_content \in Contents
    /\ req_pc = "idle"
    /\ req_i = 0
    /\ req_pos = 0
    /\ req_consumed = <<>>
    /\ req_exc = -1
    /\ req_failed = {}
    /\ req_temp = <<>>
    /\ req_bucket = <<>>
    /\ req_calls = 0

\* read_all / read_parts when the bucket is complete: the cached bytes
ReqCacheHit(op, cachable, size) ==
    /\ ReqEnter(op, cachable, size)
    /\ open_read(cachable, req_bucket) # None
    /\ req_consumed' = open_read(cachable, req_bucket)[1]
    /\ req_pc' = "returned"
    /\ req_i' = 0
    /\ req_exc' = -1
    /\ UNCHANGED req_bucket

\* read_all / read_parts when range(1, retries + 1) is empty: read_all falls
\* to its assert, read_parts ends without a part
ReqNoAttempt(op, cachable, size) ==
    /\ ReqEnter(op, cachable, size)
    /\ open_read(cachable, req_bucket) = None
    /\ req_retries < 1
    /\ req_consumed' = <<>>
    /\ req_i' = 0
    /\ IF op = "read_all"
       THEN req_pc' = "raised" /\ req_exc' = 0
       ELSE req_pc' = "returned" /\ req_exc' = -1
    /\ UNCHANGED req_bucket

\* read_all / read_parts up to the first await of the first attempt
ReqFirstAttempt(op, cachable, size) ==
    /\ ReqEnter(op, cachable, size)
    /\ open_read(cachable, req_bucket) = None
    /\ req_retries >= 1
    /\ req_consumed' = <<>>
    /\ req_i' = 1
    /\ req_pc' = "attempt"
    /\ req_exc' = -1
    /\ UNCHANGED req_bucket

\* read_parts: stream.read(size) gives k bytes, written to the bucket writer
\* and yielded to the caller
AttemptPart(k) ==
    /\ req_pc = "attempt"
    /\ req_op = "read_parts"
    /\ k \in 1..req_size
    /\ req_pos + k <= Len(req_content)
    /\ LET part == SubSeq(req_content, req_pos + 1, req_pos + k)
       IN  /\ req_temp' = req_temp \o part
           /\ req_consumed' = req_consumed \o part
    /\ req_pos' = req_pos + k
    /\ UNCHANGED <<req_op, req_cachable, req_retries, req_size, req_content,
                   req_pc, req_i, req_exc, req_failed, req_bucket, req_calls,
                   outside_req>>

\* the attempt ends normally: read_all has the whole body, read_parts' stream
\* is at its end; the writer seals and the call returns
AttemptDone ==
    /\ req_pc = "attempt"
    /\ req_op = "read_parts" => req_pos = Len(req_content)
    /\ LET written == IF req_op = "read_all" THEN req_content ELSE req_temp
       IN  /\ req_bucket' = AfterWrite(req_cachable, written, req_bucket, FALSE)
           /\ req_consumed' = IF req_op = "read_all" THEN req_content
                              ELSE req_consumed
    /\ req_temp' = <<>>
    /\ req_pc' = "returned"
    /\ UNCHANGED <<req_op, req_cachable, req_retries, req_size, req_content,
                   req_i, req_pos, req_exc, req_failed, req_calls,
                   outside_req>>

\* the attempt raises an Exception at its await: the writer cancels, the
\* except clause re-raises it after the last attempt and loops otherwise
AttemptFail ==
    /\ req_pc = "attempt"
    /\ req_bucket' = AfterWrite(req_cachable, req_temp, req_bucket, TRUE)
    /\ req_temp' = <<>>
    /\ req_failed' = req_failed \cup {req_i}
    /\ IF IsLastAttempt(req_i, req_retries)
       THEN /\ req_pc' = "raised"
            /\ req_exc' = req_i
            /\ UNCHANGED <<req_i, req_pos>>
       ELSE /\ req_i' = req_i + 1
            /\ req_pos' = 0
            /\ UNCHANGED <<req_pc, req_exc>>
    /\ UNCHANGED <<req_op, req_cachable, req_retries, req_size, req_content,
                   req_consumed, req_calls, outside_req>>

\* the caller's task is cancelled at the await: CancelledError is no
\* Exception, so it passes the except clause; the writer cancels
ReqCancelled ==
    /\ req_pc = "attempt"
    /\ req_bucket' = AfterWrite(req_cachable, req_temp, req_bucket, TRUE)
    /\ req_temp' = <<>>
    /\ req_pc' = "cancelled"
    /\ UNCHANGED <<req_op, req_cachable, req_retries, req_size, req_content,
                   req_i, req_pos, req_consumed, req_exc, req_failed, req_calls,
                   outside_req>>

NextReq ==
    \/ \E op \in {"read_all", "read_parts"}, cachable \in BOOLEAN,
          size \in 1..MaxPartSize :
          \/ ReqCacheHit(op, cachable, size)
          \/ ReqNoAttempt(op, cachable, size)
          \/ ReqFirstAttempt(op, cachable, size)
    \/ \E k \in 1..MaxPartSize : AttemptPart(k)
    \/ AttemptDone
    \/ AttemptFail
    \/ ReqCancelled

SpecFetch == InitReq /\ [][NextReq]_vars

\* the call made attempts and was not served from the cache
Attempted == req_i >= 1

\* C11: a call attempts the URL at most Requests.retries times; while it is
\* under way or after it returned from an attempt, every attempt before the
\* current one failed and none of them was surfaced; it returns at the
\* first attempt that succeeds; and when it raises, the exception is the one
\* of the last attempt, the retries-th, all attempts having failed.
C11_RetryLoop ==
    /\ req_i <= req_retries
    /\ (req_pc \in {"attempt", "returned"} /\ Attempted)
          => req_failed = 1..(req_i - 1)
    /\ req_pc = "raised"
          => /\ req_exc = req_i
             /\ req_i = req_retries
             /\ req_failed = 1..req_retries
             /\ Attempted

\* C12: when RemoteUrlMetadata.get returns after read_parts made at least one
\* attempt, whichever attempts failed and wherever they failed, its digest
\* and size are those of the content of the URL: every byte was hashed and
\* counted once.
C12_MetadataOfContent ==
    (req_op = "read_parts" /\ req_pc = "returned" /\ Attempted)
        => RemoteUrlMetadata_get(req_consumed) = RemoteUrlMetadata_get(req_content)

\* C13: the bucket is absent or holds the whole content of a fetch that
\* completed; in particular after an attempt that failed or was cancelled
\* open_read gives no partial data.
C13_BucketCompleteOrAbsent ==
    /\ req_bucket \in {<<>>, <<req_content>>}
    /\ open_read(TRUE, req_bucket) # None
          => open_read(TRUE, req_bucket)[1] = req_content

\* a call that writes to the cache ended by an exception or a cancellation
\* after its attempt had written a part of the content, not all of it, and
\* open_read gives nothing
C13_Witness ==
    /\ req_cachable
    /\ req_pc \in {"raised", "cancelled"}
    /\ req_pos >= 1
    /\ req_pos < Len(req_content)
    /\ open_read(req_cachable, req_bucket) = None

(***************************************************************************)
(* NpmModuleProvider.generate_package for a package with a ResolvedSource: *)
(* resolve_source against the registry index, then the file source.        *)
(***************************************************************************)

\* base64 digests as lockfiles and the registry write them, with their hex form
B64Digests == {"qrsB", "qrsC"}

b64decode_hexlify(encoded) ==
    CASE encoded = "qrsB" -> "aabb01"
      [] encoded = "qrsC" -> "aabb02"

\* the hex digests a legacy 'shasum' can hold
HexDigests == {"aabb01", "aabb02"}

\* digest[0:2], digest[2:4], digest[4:]
DigestSlices(digest) ==
    CASE digest = "aabb01" -> <<"aa", "bb", "01">>
      [] digest = "aabb02" -> <<"aa", "bb", "02">>

\* an integrity string '<algorithm>-<base64 digest>'
IntegrityString(algorithm, encoded) == [algorithm |-> algorithm, encoded |-> encoded]

IntegrityStrings ==
    { IntegrityString(a, e) : a \in {"sha1", "sha512"}, e \in B64Digests }

\* Integrity.parse: split at the first '-', decode the digest to hex
Integrity_parse(value) == Integrity(value.algorithm, b64decode_hexlify(value.encoded))

\* Integrity.from_sha1: a bare hex digest
Integrity_from_sha1(shasum) == Integrity("sha1", shasum)

\* the 'dist' objects of a registry version: with an integrity, with a
\* shasum only, with neither
Dists ==
    { [kind |-> "integrity", value |-> v] : v \in IntegrityStrings }
    \cup { [kind |-> "shasum", value |-> h] : h \in HexDigests }
    \cup { [kind |-> "none", value |-> ""] }

\* dist['tarball']
dist_tarball == "https://r/a/-/a-1.tgz"

npm_cache_dir == data_root \o <<"npm-cache">>
cacache_dir == npm_cache_dir \o <<"_cacache">>

get_cacache_content_path(integrity) ==
    cacache_dir \o <<"content-v2", integrity.algorithm>> \o DigestSlices(integrity.digest)

\* a comparison that never finds a mismatch
NeverMismatch(lock, registry) == FALSE

\* the test of resolve_source: same algorithm, different digests
IntegrityMismatch(lock, registry) ==
    lock.algorithm = registry.algorithm /\ lock.digest /= registry.digest

\* registry_integrity of resolve_source
RegistryIntegrity(dist) ==
    IF dist.kind = "integrity" THEN Integrity_parse(dist.value)
    ELSE Integrity_from_sha1(dist.value)

InitNpm ==
    /\ GenIdle
    /\ RunIdle
    /\ ReqIdle
    /\ LfIdle
    /\ GitIdle
    /\ NrIdle
    /\ SvIdle
    /\ npm_lock \in { <<v>> : v \in IntegrityStrings }
    /\ npm_dist \in Dists
    /\ npm_pc = "idle"
    /\ npm_exc = "none"
    /\ npm_resolved = <<>>
    /\ npm_index = {}

\* generate_package into resolve_source, up to the await of the registry index
NpmStart ==
    /\ npm_pc = "idle"
    /\ npm_pc' = "index"
    /\ UNCHANGED <<sources, npm_lock, npm_dist, npm_exc, npm_resolved, npm_index>>
    /\ UNCHANGED outside_npm

\* the registry index has arrived, or its fetch has failed: the rest of
\* resolve_source, retrieve_integrity, up to the await of get_size
NpmIndex(ok) ==
    /\ npm_pc = "index"
    /\ IF ~ok
       THEN npm_pc' = "raised" /\ npm_exc' = "OSError" /\ UNCHANGED npm_resolved
       ELSE IF npm_dist.kind = "none"
       THEN npm_pc' = "raised" /\ npm_exc' = "AssertionError"
            /\ UNCHANGED npm_resolved
       ELSE LET registry_integrity == RegistryIntegrity(npm_dist)
                lock == Integrity_parse(npm_lock[1])
            IN IF npm_lock /= <<>> /\ IntegrityMismatch(lock, registry_integrity)
               THEN npm_pc' = "raised" /\ npm_exc' = "ValueError"
                    /\ UNCHANGED npm_resolved
               ELSE /\ npm_resolved' =
                          << [resolved |-> dist_tarball,
                              integrity |-> IF npm_lock /= <<>> THEN lock
                                            ELSE registry_integrity] >>
                    /\ npm_pc' = "size"
                    /\ UNCHANGED npm_exc
    /\ UNCHANGED <<sources, npm_lock, npm_dist, npm_index>>
    /\ UNCHANGED outside_npm

\* get_size has returned or failed: the file source and the index entry
NpmSize(ok) ==
    /\ npm_pc = "size"
    /\ IF ok
       THEN LET source == npm_resolved[1]
            IN /\ sources' = sources \cup
                     { add_url_source(source.resolved, source.integrity,
                                      get_cacache_content_path(source.integrity),
                                      None) }
               /\ npm_index' = npm_index \cup {source.resolved}
               /\ npm_pc' = "done"
               /\ UNCHANGED npm_exc
       ELSE /\ npm_pc' = "raised"
            /\ npm_exc' = "OSError"
            /\ UNCHANGED <<sources, npm_index>>
    /\ UNCHANGED <<npm_lock, npm_dist, npm_resolved>>
    /\ UNCHANGED outside_npm

NextNpm ==
    \/ NpmStart
    \/ \E ok \in BOOLEAN : NpmIndex(ok)
    \/ \E ok \in BOOLEAN : NpmSize(ok)

SpecNpm == InitNpm /\ [][NextNpm]_vars

\* the lockfile and the registry declare integrities of one algorithm with
\* different digests
DeclaredMismatch ==
    /\ npm_lock /= <<>>
    /\ npm_dist.kind /= "none"
    /\ Integrity_parse(npm_lock[1]).algorithm = RegistryIntegrity(npm_dist).algorithm
    /\ Integrity_parse(npm_lock[1]).digest /= RegistryIntegrity(npm_dist).digest

\* C14: when the lockfile and the registry declare integrities of the same
\* algorithm with different digests, resolve_source returns no source and
\* generate_package adds none: once the registry index has arrived the call
\* has raised ValueError, and it never ends normally.
C14_MismatchRaises ==
    DeclaredMismatch
    => /\ npm_resolved = <<>>
       /\ sources = {}
       /\ npm_index = {}
       /\ \/ npm_pc \in {"idle", "index"}
          \/ npm_pc = "raised" /\ npm_exc \in {"ValueError", "OSError"}

\* the registry answered with a digest that differs from the lockfile's and
\* the call raised
C14_Witness ==
    /\ DeclaredMismatch
    /\ npm_pc = "raised"
    /\ npm_exc = "ValueError"

(***************************************************************************)
(* The lockfile providers: NpmLockfileProvider over the nested             *)
(* 'dependencies' of package-lock.json, PnpmLockfileProvider over the flat *)
(* 'packages' of pnpm-lock.yaml.                                           *)
(***************************************************************************)

\* an entry of the lockfile: its key, its 'dev' and 'bundled' flags and, for
\* npm, its nested 'dependencies'
Node(key, dev, bundled, deps) ==
    [key |-> key, dev |-> dev, bundled |-> bundled, deps |-> deps]

NpmLeaves == { Node("name", dev, bundled, <<>>) : dev \in BOOLEAN, bundled \in BOOLEAN }

\* npm entries, with at most one nested dependency
NpmNodes ==
    { Node("name", dev, bundled, deps) :
          dev \in BOOLEAN, bundled \in BOOLEAN,
          deps \in {<<>>} \cup { <<leaf>> : leaf \in NpmLeaves } }

NpmTrees == UNION { [1..n -> NpmNodes] : n \in 1..MaxTop }

\* pnpm entries: keyed '/name@version' (v6, v7) or 'name@version' (v9); the
\* entries of v6 and v7 lockfiles carry the 'dev' flag
PnpmEntries(style, devs) == { Node(style, dev, FALSE, <<>>) : dev \in devs }

PnpmPackages(style, devs) ==
    UNION { [1..n -> PnpmEntries(style, devs)] : n \in 0..MaxEntries }

\* lockfileVersion as pnpm-lock.yaml files spell it
PnpmVersions ==
    { <<"5", ".", "4">>, <<"6", ".", "0">>, <<"7", ".", "0">>, <<"9", ".", "0">>,
      <<"4", "2">> }

\* lockfileVersion of package-lock.json
NpmVersions == { <<"1">>, <<"2">>, <<"3">> }

\* str.startswith with a tuple of one-character prefixes
startswith(str, prefixes) == str /= <<>> /\ Head(str) \in prefixes

_SUPPORTED_V6_VERSIONS == {"6", "7"}

DigitValue(c) ==
    CASE c = "0" -> 0 [] c = "1" -> 1 [] c = "2" -> 2 [] c = "3" -> 3
      [] c = "4" -> 4 [] c = "5" -> 5 [] c = "6" -> 6 [] c = "7" -> 7
      [] c = "8" -> 8 [] c = "9" -> 9

RECURSIVE IntFloatFrom(_, _)
\* int(float(str)): the digits before the point, read as a number
IntFloatFrom(str, acc) ==
    IF str = <<>> \/ Head(str) = "." THEN acc
    ELSE IntFloatFrom(Tail(str), 10 * acc + DigitValue(Head(str)))

int_float(str) == IntFloatFrom(str, 0)

\* _parse_package_key: _V6_PACKAGE_RE wants the leading '/', _V9_PACKAGE_RE
\* matches either spelling
_parse_package_key(key, lockfile_version) ==
    IF startswith(lockfile_version, _SUPPORTED_V6_VERSIONS)
    THEN key = "/name@version"
    ELSE key \in {"/name@version", "name@version"}

\* the entries of a pnpm lockfile written by pnpm for the version
InitPnpmTree(version) ==
    IF startswith(version, _SUPPORTED_V6_VERSIONS)
    THEN PnpmPackages("/name@version", BOOLEAN)
    ELSE IF startswith(version, {"9"})
    THEN PnpmPackages("name@version", {FALSE})
    ELSE PnpmPackages("/name@version", BOOLEAN)
         \cup PnpmPackages("name@version", BOOLEAN)

\* process_dependencies that goes below a skipped entry too
ProcessAllDepths(deps, no_devel, prefix) ==
    LET Kept(n) == ~(n.dev /\ no_devel) /\ ~n.bundled
        Self(i) == IF Kept(deps[i]) THEN <<prefix \o <<i>>>> ELSE <<>>
        Below(i) == SelectSeq([j \in DOMAIN deps[i].deps |-> prefix \o <<i, j>>],
                              LAMBDA q : Kept(deps[i].deps[q[Len(q)]]))
        RECURSIVE From(_)
        From(i) == IF i > Len(deps) THEN <<>>
                   ELSE Self(i) \o Below(i) \o From(i + 1)
    IN From(1)

RECURSIVE process_dependencies(_, _, _)
\* NpmLockfileProvider.process_dependencies: the paths of the packages it
\* yields, in order; a dev entry under no_devel and a bundled entry are
\* passed over together with what is nested in them
process_dependencies(deps, no_devel, prefix) ==
    LET RECURSIVE From(_)
        From(i) ==
            IF i > Len(deps) THEN <<>>
            ELSE LET info == deps[i]
                 IN IF info.dev /\ no_devel THEN From(i + 1)
                    ELSE IF info.bundled THEN From(i + 1)
                    ELSE <<prefix \o <<i>>>>
                         \o process_dependencies(info.deps, no_devel, prefix \o <<i>>)
                         \o From(i + 1)
    IN From(1)

\* the loop of PnpmLockfileProvider.process_lockfile: the entries it yields
pnpm_packages(packages_dict, lockfile_version, no_devel) ==
    LET Yields(i) ==
            /\ _parse_package_key(packages_dict[i].key, lockfile_version)
            /\ ~(no_devel /\ packages_dict[i].dev)
    IN SelectSeq([i \in DOMAIN packages_dict |-> <<i>>], LAMBDA q : Yields(q[1]))

\* what the generator yields once its checks of the version have passed
LfPackages ==
    IF lf_dialect = "npm"
    THEN process_dependencies(lf_tree, lf_no_devel, <<>>)
    ELSE pnpm_packages(lf_tree, lf_version, lf_no_devel)

\* the exception the checks of the version raise, "none" if they pass
LfVersionCheck ==
    IF lf_dialect = "npm"
    THEN IF int_float(lf_version) <= 2 THEN "none" ELSE "AssertionError"
    ELSE IF lf_version = None THEN "ValueError: missing lockfileVersion field"
    ELSE IF startswith(lf_version, {"5"})
    THEN "ValueError: lockfile v5 (pnpm 5) is not supported"
    ELSE "none"

InitLf ==
    /\ GenIdle
    /\ RunIdle
    /\ ReqIdle
    /\ NpmIdle
    /\ GitIdle
    /\ NrIdle
    /\ SvIdle
    /\ lf_dialect \in {"npm", "pnpm"}
    /\ lf_no_devel \in BOOLEAN
    /\ IF lf_dialect = "npm"
       THEN lf_version \in NpmVersions /\ lf_tree \in NpmTrees
       ELSE /\ lf_version \in PnpmVersions \cup {None}
            /\ lf_tree \in InitPnpmTree(lf_version)
    /\ lf_pc = "idle"
    /\ lf_exc = "none"
    /\ lf_lockfile = <<>>
    /\ lf_yielded = <<>>
    /\ lf_stderr = <<>>

\* the first next() on process_lockfile: the file is read, the version
\* checked, and the generator runs to its first yield or to its end
LfFirst ==
    /\ lf_pc = "idle"
    /\ IF LfVersionCheck /= "none"
       THEN /\ lf_pc' = "raised"
            /\ lf_exc' = LfVersionCheck
            /\ UNCHANGED <<lf_lockfile, lf_yielded>>
       ELSE /\ lf_lockfile' = IF lf_dialect = "pnpm" THEN <<int_float(lf_version)>>
                              ELSE lf_lockfile
            /\ lf_exc' = "none"
            /\ IF LfPackages = <<>>
               THEN lf_pc' = "done" /\ UNCHANGED lf_yielded
               ELSE lf_pc' = "iter" /\ lf_yielded' = <<LfPackages[1]>>
    /\ UNCHANGED <<lf_dialect, lf_no_devel, lf_version, lf_tree, lf_stderr>>
    /\ UNCHANGED outside_lf

\* a later next(): the next yield, or the end of the generator
LfNext ==
    /\ lf_pc = "iter"
    /\ IF Len(lf_yielded) < Len(LfPackages)
       THEN /\ lf_yielded' = Append(lf_yielded, LfPackages[Len(lf_yielded) + 1])
            /\ UNCHANGED lf_pc
       ELSE /\ lf_pc' = "done"
            /\ UNCHANGED lf_yielded
    /\ UNCHANGED <<lf_dialect, lf_no_devel, lf_version, lf_tree, lf_exc,
                   lf_lockfile, lf_stderr>>
    /\ UNCHANGED outside_lf

NextLf == LfFirst \/ LfNext

SpecLock == InitLf /\ [][NextLf]_vars

\* the paths of all the entries of the lockfile
AllPaths ==
    { <<i>> : i \in DOMAIN lf_tree }
    \cup UNION { { <<i, j>> : j \in DOMAIN lf_tree[i].deps } : i \in DOMAIN lf_tree }

\* the entry at a path
NodeAt(path) ==
    IF Len(path) = 1 THEN lf_tree[path[1]] ELSE lf_tree[path[1]].deps[path[2]]

\* the entry is passed over: bundled, or dev-flagged under no_devel
Skipped(node) == node.bundled \/ (node.dev /\ lf_no_devel)

\* lockfileVersion is of the 6, 7 or 9 family
SupportedPnpmVersion == int_float(lf_version) \in {6, 7, 9}

\* C16: for a pnpm lockfile whose lockfileVersion is outside the 6, 7 and 9
\* families, process_lockfile raises ValueError at its first step and has
\* yielded no package.
C16_UnsupportedVersionRejected ==
    (lf_dialect = "pnpm" /\ lf_version /= None /\ ~SupportedPnpmVersion
        /\ lf_pc /= "idle")
    => /\ lf_pc = "raised"
       /\ lf_exc \in {"ValueError: lockfile v5 (pnpm 5) is not supported",
                      "ValueError: unsupported lockfileVersion"}
       /\ lf_yielded = <<>>

\* C17: once process_lockfile is through a v9 pnpm lockfile with no_devel
\* set, the warning is on the error stream and every package was yielded.
C17_V9NoDevelWarns ==
    (lf_dialect = "pnpm" /\ lf_version = <<"9", ".", "0">> /\ lf_no_devel
        /\ lf_pc = "done")
    => /\ "--no-devel is not yet supported for pnpm lockfile v9" \in Range(lf_stderr)
       /\ Range(lf_yielded) = AllPaths

\* the lockfile is of a supported version and the provider is through it
LfThrough ==
    /\ lf_pc = "done"
    /\ lf_dialect = "pnpm" => startswith(lf_version, _SUPPORTED_V6_VERSIONS)

Specifier(scheme, slashes, netloc, absolute, segs, fragment) ==
    [scheme |-> scheme, slashes |-> slashes, netloc |-> netloc,
     path |-> [absolute |-> absolute, segs |-> segs], fragment |-> fragment]

RepoPaths == { <<"o", "r">>, <<"o", "r.git">>, <<"o", "r", "">> }

Fragments == {"c1", "abcdef123456"}

\* '<scheme>://<host>/o/r#<commit>' and '<scheme>:o/r#<commit>', the latter
\* with the host first in the path for the git scheme
Specifiers ==
    { Specifier(scheme, TRUE, netloc, TRUE, segs, fragment) :
          scheme \in {"git", "git+http", "git+https", "GIT+HTTPS", "git+ssh"},
          netloc \in {"h", "H"}, segs \in RepoPaths, fragment \in Fragments }
    \cup { Specifier(scheme, FALSE, "", FALSE, segs, fragment) :
          scheme \in {"github", "gitlab", "bitbucket"},
          segs \in RepoPaths, fragment \in Fragments }
    \cup { Specifier("git", FALSE, "", FALSE, <<"github.com">> \o segs, fragment) :
          segs \in RepoPaths, fragment \in Fragments }

\* the from_ of the lockfile entry, the package name stripped off
Froms == { [gitplus |-> FALSE, rest |-> "github:o/r"],
           [gitplus |-> TRUE, rest |-> "https://h/o/r.git"] }

FromText(from) == (IF from.gitplus THEN "git+" ELSE "") \o from.rest

RECURSIVE JoinSlash(_)
\* '/'.join(segs)
JoinSlash(segs) ==
    IF segs = <<>> THEN ""
    ELSE IF Len(segs) = 1 THEN segs[1]
    ELSE segs[1] \o "/" \o JoinSlash(Tail(segs))

PathText(path) == (IF path.absolute THEN "/" ELSE "") \o JoinSlash(path.segs)

\* the specifier as the lockfile spells it
Written(spec) ==
    spec.scheme \o ":" \o (IF spec.slashes THEN "//" \o spec.netloc ELSE "")
        \o PathText(spec.path) \o "#" \o spec.fragment

\* str.lower on the schemes above
Lower(str) ==
    CASE str = "GIT+HTTPS" -> "git+https"
      [] str = "H" -> "h"
      [] OTHER -> str

\* urllib.parse.urlparse: the scheme is lower-cased, the netloc is what
\* follows '//', the rest is the path up to '#', then the fragment
urlparse(spec) ==
    [scheme |-> Lower(spec.scheme),
     netloc |-> IF spec.slashes THEN spec.netloc ELSE "",
     path |-> spec.path,
     fragment |-> spec.fragment]

\* urllib.parse.uses_netloc, among the schemes above
uses_netloc == {"git", "git+ssh", "http", "https"}

\* _GIT_SCHEMES.get(scheme, {}): the parts to replace, as <<name, value>> pairs
_GIT_SCHEMES(scheme) ==
    CASE scheme = "github" -> << <<"scheme", "https">>, <<"netloc", "github.com">> >>
      [] scheme = "gitlab" -> << <<"scheme", "https">>, <<"netloc", "gitlab.com">> >>
      [] scheme = "bitbucket" -> << <<"scheme", "https">>, <<"netloc", "bitbucket.com">> >>
      [] scheme = "git" -> <<>>
      [] scheme = "git+http" -> << <<"scheme", "http">> >>
      [] scheme = "git+https" -> << <<"scheme", "https">> >>
      [] OTHER -> <<>>

\* the schemes the table has an entry for
GitSchemeKeys == {"github", "gitlab", "bitbucket", "git", "git+http", "git+https"}

\* ParseResult._replace(**replacements)
Replace(url, replacements) ==
    LET Value(name, old) ==
            IF \E k \in DOMAIN replacements : replacements[k][1] = name
            THEN (CHOOSE r \in Range(replacements) : r[1] = name)[2]
            ELSE old
    IN [url EXCEPT !.scheme = Value("scheme", @), !.netloc = Value("netloc", @)]

\* what urlunparse puts after '<scheme>:': '//<netloc>' before the path when
\* there is a netloc or the scheme is one of uses_netloc, the path made
\* absolute then
geturl_rest(url) ==
    LET path == PathText(url.path)
        double == url.path.absolute /\ url.path.segs /= <<>> /\ url.path.segs[1] = ""
        with_netloc ==
            IF url.netloc /= "" \/ (url.scheme \in uses_netloc /\ ~double)
            THEN "//" \o url.netloc
                      \o (IF path /= "" /\ ~url.path.absolute THEN "/" \o path ELSE path)
            ELSE path
    IN with_netloc \o (IF url.fragment /= "" THEN "#" \o url.fragment ELSE "")

\* ParseResult.geturl
geturl(url) == url.scheme \o ":" \o geturl_rest(url)

\* new_url of parse_git_source: fragment dropped, the table applied, and the
\* first segment of the path taken as netloc when there is none
new_url(original_url) ==
    LET replaced == Replace([original_url EXCEPT !.fragment = ""],
                            _GIT_SCHEMES(original_url.scheme))
        split == IF replaced.path.absolute THEN <<"">> \o replaced.path.segs
                 ELSE replaced.path.segs
    IN IF replaced.netloc = ""
       THEN [replaced EXCEPT !.netloc = split[1],
                             !.path = [absolute |-> FALSE, segs |-> Tail(split)]]
       ELSE replaced

\* LockfileProvider.parse_git_source
parse_git_source(spec, from) ==
    LET original_url == urlparse(spec)
    IN [original |-> geturl(original_url),
        url |-> geturl(new_url(original_url)),
        commit |-> original_url.fragment,
        from_ |-> from]

\* source.original[len('git+'):] when source.original starts with 'git+'
StripGitPlus(scheme) ==
    CASE scheme = "git+http" -> "http"
      [] scheme = "git+https" -> "https"
      [] scheme = "git+ssh" -> "ssh"

package_name == "pkg"

\* the folder of the repository: data_root / 'git-packages' / name-commit
git_path(source) == data_root \o <<"git-packages", package_name \o "-" \o source.commit>>

InitGit ==
    /\ GenIdle
    /\ RunIdle
    /\ ReqIdle
    /\ NpmIdle
    /\ LfIdle
    /\ NrIdle
    /\ SvIdle
    /\ git_spec \in Specifiers
    /\ git_from \in Froms
    /\ git_pc = "idle"
    /\ git_source = <<>>
    /\ git_new_url = <<>>
    /\ git_sources = <<>>
    /\ git_data = <<>>

\* NpmLockfileProvider.process_dependencies: parse_git_source(version, from_)
GitParse ==
    /\ git_pc = "idle"
    /\ git_source' = <<parse_git_source(git_spec, FromText(git_from))>>
    /\ git_new_url' = <<new_url(urlparse(git_spec))>>
    /\ git_pc' = "parsed"
    /\ UNCHANGED <<sources, git_spec, git_from, git_sources, git_data>>
    /\ UNCHANGED outside_git

\* NpmModuleProvider.generate_package for the GitSource
GitGenerate ==
    /\ git_pc = "parsed"
    /\ LET source == git_source[1]
           path == git_path(source)
       IN /\ git_sources' = << <<PathStr(path), source>> >>
          /\ sources' = sources \cup {add_git_source(source.url, source.commit, path)}
    /\ git_pc' = "generated"
    /\ UNCHANGED <<git_spec, git_from, git_source, git_new_url, git_data>>
    /\ UNCHANGED outside_git

\* NpmModuleProvider._finalize: the patch tables of the lockfile
GitFinalize ==
    /\ git_pc = "generated"
    /\ LET path == git_sources[1][1]
           source == git_sources[1][2]
           new_version == path \o "#" \o source.commit
           scheme == urlparse(git_spec).scheme
       IN git_data' =
            [ package_json |->
                  { <<source.from_, new_version>> }
                  \cup (IF git_from.gitplus
                        THEN { <<git_from.rest, new_version>> } ELSE {}),
              package_lock_json |->
                  { <<source.original, new_version>> }
                  \cup (IF scheme \in {"git+http", "git+https", "git+ssh"}
                        THEN { << StripGitPlus(scheme) \o ":"
                                     \o geturl_rest(urlparse(git_spec)),
                                  new_version >> }
                        ELSE {}) ]
    /\ git_pc' = "finalized"
    /\ UNCHANGED <<sources, git_spec, git_from, git_source, git_new_url, git_sources>>
    /\ UNCHANGED outside_git

NextGit == GitParse \/ GitGenerate \/ GitFinalize

SpecGit == InitGit /\ [][NextGit]_vars

\* the url the claim describes for the usual spellings: the transport scheme
\* in place of git+http / git+https, https on the host for the hosted
\* shorthands, nothing after the path
RewrittenUrl(spec) ==
    CASE spec.scheme = "git+https" -> "https://" \o spec.netloc \o PathText(spec.path)
      [] spec.scheme = "git+http" -> "http://" \o spec.netloc \o PathText(spec.path)
      [] spec.scheme = "github" -> "https://github.com/" \o PathText(spec.path)
      [] spec.scheme = "gitlab" -> "https://gitlab.com/" \o PathText(spec.path)
      [] spec.scheme = "bitbucket" -> "https://bitbucket.com/" \o PathText(spec.path)
      [] spec.scheme = "git" /\ spec.slashes
             -> "git://" \o spec.netloc \o PathText(spec.path)
      [] OTHER -> "git://" \o PathText(spec.path)

\* C19: for a specifier whose prefix is one of the shared table, the
\* GitSource has the fragment as commit, the rewritten url without fragment
\* and the specifier as written as original; and the patch table of
\* package-lock.json maps the specifier as written to the checkout path.
C19_GitSourceOfSpecifier ==
    (git_spec /= <<>> /\ git_pc /= "idle")
    => (git_spec.scheme \in GitSchemeKeys
        => /\ git_source[1].commit = git_spec.fragment
           /\ git_source[1].url = RewrittenUrl(git_spec)
           /\ git_source[1].original = Written(git_spec)
           /\ git_pc = "finalized"
                 => \E entry \in git_data.package_lock_json :
                        /\ entry[1] = Written(git_spec)
                        /\ entry[2] = PathStr(git_path(git_source[1]))
                                         \o "#" \o git_spec.fragment)

\* C20: the url of the GitSource is canonical: scheme and host in lower
\* case, no trailing '/', no '.git' suffix.
C20_UrlCanonical ==
    git_pc /= "idle"
    => LET url == git_new_url[1]
       IN /\ url.scheme = Lower(url.scheme)
          /\ url.netloc = Lower(url.netloc)
          /\ url.path.segs /= <<>>
          /\ url.path.segs[Len(url.path.segs)] \notin {"", "r.git"}
          /\ git_source[1].url = geturl(url)

(***************************************************************************)
(* One run of GeneratorProgress over packages that share a git repository. *)
(***************************************************************************)

\* a package of another name pinned to the repository and commit of PkgG1
PkgK1 == GitSource("k", "1", Url("https://h", <<"o", "g">>), "c1")

GitPackageLists ==
    UNION { InjectiveSeqs({PkgG1, PkgK1, PkgN, PkgM}, n) : n \in 1..MaxPkgs }

InitGitRun ==
    /\ GenIdle
    /\ OthersIdle
    /\ provider \in Providers
    /\ packages \in GitPackageLists
    /\ max_parallel \in 1..MaxParallel
    /\ sem_value = max_parallel
    /\ sem_waiters = <<>>
    /\ task_pc = <<>>
    /\ cancel_req = {}
    /\ fetch_ok = <<>>
    /\ ready = <<>>
    /\ done_q = <<>>
    /\ run_pc = "init"
    /\ taken = 0
    /\ run_exc = 0
    /\ first_failed = 0
    /\ tarballs = <<>>
    /\ late_adds = 0
    /\ at_raise = {}
    /\ run_no = 1
    /\ first_manifest = <<>>
    /\ first_packages = <<>>
    /\ first_parallel = 1
    /\ processing = {}

SpecGitRun == InitGitRun /\ [][Next]_vars

\* the git sources the generator holds for the repository and commit of task i
GitSourcesOf(i) ==
    { src \in sources : /\ src[1] = <<"type", "git">>
                        /\ src[2] = <<"url", UrlStr(packages[i].url)>>
                        /\ src[3] = <<"commit", packages[i].commit>> }

\* C21: two packages whose git sources have the same url and commit get one
\* checkout destination: once both are generated the generator holds exactly
\* one git source for the pair, whatever the packages' names.
C21_OneCheckoutPerCommit ==
    \A i, j \in Tasks :
        (/\ packages[i].kind = "git" /\ packages[j].kind = "git"
         /\ packages[i].url = packages[j].url
         /\ packages[i].commit = packages[j].commit
         /\ BothGenerated(i, j))
        => Cardinality(GitSourcesOf(i)) = 1

(***************************************************************************)
(* split_sources() yields `current` whenever the next source would reach   *)
(* split_size, without looking at whether `current` holds anything yet.    *)
(***************************************************************************)

\* C27: every chunk yielded by split_sources() is non-empty, for every source
\* set and every split_size, also when the first source in order alone
\* reaches split_size.
C27_ChunksNonEmpty ==
    gen_pc = "split" => \A k \in DOMAIN chunks : chunks[k] /= <<>>

(***************************************************************************)
(* Two lockfile entries for one name and version whose tarballs come from  *)
(* two registries and differ in content: the destination of a tarball is   *)
(* built from the last segment of its URL (yarn) or from the name and      *)
(* version (pnpm), never from the registry or the digest.                  *)
(***************************************************************************)

FilePackageLists ==
    UNION { InjectiveSeqs({PkgA, PkgC, PkgN, PkgM}, n) : n \in 1..MaxPkgs }

InitFileRun ==
    /\ GenIdle
    /\ OthersIdle
    /\ provider \in Providers
    /\ packages \in FilePackageLists
    /\ max_parallel \in 1..MaxParallel
    /\ sem_value = max_parallel
    /\ sem_waiters = <<>>
    /\ task_pc = <<>>
    /\ cancel_req = {}
    /\ fetch_ok = <<>>
    /\ ready = <<>>
    /\ done_q = <<>>
    /\ run_pc = "init"
    /\ taken = 0
    /\ run_exc = 0
    /\ first_failed = 0
    /\ tarballs = <<>>
    /\ late_adds = 0
    /\ at_raise = {}
    /\ run_no = 1
    /\ first_manifest = <<>>
    /\ first_packages = <<>>
    /\ first_parallel = 1
    /\ processing = {}

SpecFileRun == InitFileRun /\ [][Next]_vars

\* the destination of a source: its dest and dest-filename entries
Destination(src) == { e \in Range(src) : e[1] \in {"dest", "dest-filename"} }

\* C24: in every reachable state of the generator no two file sources have
\* the same destination (dest plus dest-filename) and different integrity
\* digests.
C24_NoClashingFiles ==
    \A s, t \in sources :
        (/\ s[1] = <<"type", "file">>
         /\ t[1] = <<"type", "file">>
         /\ Destination(s) = Destination(t))
        => s[3] = t[3]

(***************************************************************************)
(* GeneratorProgress over a collection that may hold equal packages more   *)
(* than once (run() takes any Collection; Package is a NamedTuple, equal   *)
(* by value).                                                              *)
(***************************************************************************)

DupPackageLists == UNION { [1..n -> {PkgN, PkgA, PkgG1}] : n \in 1..MaxPkgs }

InitDupRun ==
    /\ GenIdle
    /\ OthersIdle
    /\ provider \in Providers
    /\ packages \in DupPackageLists
    /\ max_parallel \in 1..MaxParallel
    /\ sem_value = max_parallel
    /\ sem_waiters = <<>>
    /\ task_pc = <<>>
    /\ cancel_req = {}
    /\ fetch_ok = <<>>
    /\ ready = <<>>
    /\ done_q = <<>>
    /\ run_pc = "init"
    /\ taken = 0
    /\ run_exc = 0
    /\ first_failed = 0
    /\ tarballs = <<>>
    /\ late_adds = 0
    /\ at_raise = {}
    /\ run_no = 1
    /\ first_manifest = <<>>
    /\ first_packages = <<>>
    /\ first_parallel = 1
    /\ processing = {}

SpecDupRun == InitDupRun /\ [][Next]_vars

\* C26: the bookkeeping of GeneratorProgress never changes the outcome of
\* run(): for every package collection, also one holding equal packages more
\* than once, run() raises only if a generate_package call raised.
C26_FailsOnlyWithGenerate ==
    run_pc = "raised" => first_failed /= 0

(***************************************************************************)
(* Packages whose source is a LocalSource: a path below the lockfile.      *)
(***************************************************************************)

PkgL == LocalSource("l", "1", "../l", TRUE)
\* a local package whose path holds no package.json
PkgLx == LocalSource("x", "1", "../x", FALSE)
\* a local package that has the name of a special source
PkgE == LocalSource("electron", "1", "../electron", TRUE)

LocalPackageLists ==
    UNION { InjectiveSeqs({PkgL, PkgLx, PkgE, PkgN}, n) : n \in 1..MaxPkgs }

InitLocalRun ==
    /\ GenIdle
    /\ OthersIdle
    /\ provider \in Providers
    /\ packages \in LocalPackageLists
    /\ max_parallel \in 1..MaxParallel
    /\ sem_value = max_parallel
    /\ sem_waiters = <<>>
    /\ task_pc = <<>>
    /\ cancel_req = {}
    /\ fetch_ok = <<>>
    /\ ready = <<>>
    /\ done_q = <<>>
    /\ run_pc = "init"
    /\ taken = 0
    /\ run_exc = 0
    /\ first_failed = 0
    /\ tarballs = <<>>
    /\ late_adds = 0
    /\ at_raise = {}
    /\ run_no = 1
    /\ first_manifest = <<>>
    /\ first_packages = <<>>
    /\ first_parallel = 1
    /\ processing = {}

SpecLocalRun == InitLocalRun /\ [][Next]_vars

\* C25: generate_package on a package whose source is a LocalSource leaves the
\* generator unchanged, for yarn and pnpm and whatever the package's name:
\* while only local packages have been generated, the generator holds no
\* source and no command.
C25_LocalAddsNothing ==
    (\A i \in Tasks : task_pc[i] \in {"ok", "exc"} => packages[i].kind = "local")
        => sources = {} /\ commands = <<>>

(***************************************************************************)
(* SemVer.Prerelease: the dot-separated parts of a prerelease tag, each an *)
(* int when int() accepts it and a string otherwise, and its __lt__.       *)
(***************************************************************************)

\* the dot-separated pieces of the tags of the model
PartTexts == {"1", "2", "alpha", "beta"}

\* the pieces int() accepts, with their values
IntValues == ("1" :> 1) @@ ("2" :> 2)

\* parse: converted_part = int(part_s), or part_s on ValueError
IntPart(n) == [type |-> "int", int |-> n]
StrPart(str) == [type |-> "str", str |-> str]

ConvertedPart(part_s) ==
    IF part_s \in DOMAIN IntValues THEN IntPart(IntValues[part_s])
    ELSE StrPart(part_s)

\* Prerelease.parse of the tags of up to MaxParts pieces
Prereleases ==
    UNION { { [k \in 1..n |-> ConvertedPart(rel[k])] : rel \in [1..n -> PartTexts] } :
              n \in 1..MaxParts }

\* our_part < other_part for two parts of one type
PartLess(our_part, other_part) ==
    IF our_part.type = "int" THEN our_part.int < other_part.int
    ELSE StrLess(our_part.str, other_part.str)

RECURSIVE LtLoop(_, _, _)
\* the for loop of __lt__ over zip(self._parts, other._parts) from pair k on,
\* and the return that follows it
LtLoop(ours, others, k) ==
    IF k > Len(ours) \/ k > Len(others) THEN Len(ours) < Len(others)
    ELSE IF ours[k].type = others[k].type
    THEN IF PartLess(ours[k], others[k]) THEN TRUE
         ELSE LtLoop(ours, others, k + 1)
    ELSE IF ours[k].type = "int" THEN TRUE
    ELSE LtLoop(ours, others, k + 1)

\* SemVer.Prerelease.__lt__
__lt__(self, other) == LtLoop(self, other, 1)

outside_sv == <<gen_vars, run_vars, req_vars, npm_vars, lf_vars, git_vars, nr_vars>>

InitSemVer ==
    /\ GenIdle
    /\ RunIdle
    /\ ReqIdle
    /\ NpmIdle
    /\ LfIdle
    /\ GitIdle
    /\ NrIdle
    /\ sv_a \in Prereleases
    /\ sv_b \in Prereleases
    /\ sv_lt = <<>>

\* a < b, b < a and a < a are evaluated
SvCompare ==
    /\ sv_lt = <<>>
    /\ sv_lt' = [ab |-> __lt__(sv_a, sv_b), ba |-> __lt__(sv_b, sv_a),
                 aa |-> __lt__(sv_a, sv_a)]
    /\ UNCHANGED <<sv_a, sv_b>>
    /\ UNCHANGED outside_sv

SpecSemVer == InitSemVer /\ [][SvCompare]_vars

\* C30: '<' on prereleases is a strict order: for no two prereleases a and b
\* do both a < b and b < a hold, and a < a never holds.
C30_StrictOrder ==
    sv_lt /= <<>> => ~(sv_lt.ab /\ sv_lt.ba) /\ ~sv_lt.aa

(***************************************************************************)
(* NpmModuleProvider under GeneratorProgress: the packages of one or two   *)
(* package-lock.json files, generated by concurrent tasks.  The provider   *)
(* keeps, per package name, a future for the registry index: the first     *)
(* task of a name requests the index, the others await the future.         *)
(***************************************************************************)

\* the lockfiles, as paths below lockfile_root
RootLockfile == <<"package-lock.json">>
SubLockfile == <<"sub", "package-lock.json">>

\* a package NpmLockfileProvider yields for an entry with 'resolved'
NpmResolvedPackage(name, version, integrity, lockfile) ==
    [name |-> name, version |-> version, kind |-> "resolved",
     integrity |-> integrity, lockfile |-> lockfile]

\* a package it yields for an entry with 'from': the version is the
\* specifier.  spec and from keep the two texts in their parts, for the
\* startswith tests and the slices of _finalize
NpmGitPackage(name, spec, from, lockfile) ==
    [name |-> name, version |-> Written(spec), kind |-> "git",
     source |-> parse_git_source(spec, FromText(from)), lockfile |-> lockfile,
     spec |-> spec, from |-> from]

\* two versions of one name, and a package of the lockfile of a sub-directory
NpmA1 == NpmResolvedPackage("a", "1", Integrity("sha512", "aabb01"), RootLockfile)
NpmA2 == NpmResolvedPackage("a", "2", Integrity("sha512", "aabb02"), RootLockfile)
NpmB1 == NpmResolvedPackage("b", "1", Integrity("sha1", "aabb01"), SubLockfile)

\* one repository pinned at two commits by two entries of one lockfile
NpmG1 == NpmGitPackage("g", Specifier("git+https", TRUE, "h", TRUE, <<"o", "r">>, "c1"),
                       [gitplus |-> FALSE, rest |-> "github:o/r"], RootLockfile)
NpmG2 == NpmGitPackage("g", Specifier("git+https", TRUE, "h", TRUE, <<"o", "r">>,
                                      "abcdef123456"),
                       [gitplus |-> FALSE, rest |-> "github:o/r"], RootLockfile)

NpmPackageLists ==
    UNION { InjectiveSeqs({NpmA1, NpmA2, NpmB1, NpmG1, NpmG2}, n) : n \in 1..MaxPkgs }

NpmNames == {"a", "b"}

\* the versions the registry lists for every name, in the order of the index
RegistryVersions == <<"1", "2", "3">>

\* versions[version]['dist']['tarball']
tarball(name, version) ==
    "https://r/" \o name \o "/-/" \o name \o "-" \o version \o ".tgz"

\* data_url of resolve_source
data_url(name) == "https://r/" \o name

\* dict[key] = value: a new key goes last, a key already there keeps its place
DictPut(items, key, value) ==
    IF \E k \in DOMAIN items : items[k][1] = key
    THEN [k \in DOMAIN items |->
             IF items[k][1] = key THEN <<key, value>> ELSE items[k]]
    ELSE Append(items, <<key, value>>)

\* dict[key] of a defaultdict whose default is empty
DictGet(items, key) ==
    IF \E k \in DOMAIN items : items[k][1] = key
    THEN (CHOOSE it \in Range(items) : it[1] = key)[2]
    ELSE <<>>

\* a folder for the repository named after the package only
NpmGitPathByName(pkg) == data_root \o <<"git-packages", pkg.name>>

\* generate_package: data_root / 'git-packages' / f'{package.name}-{source.commit}'
NpmGitPath(pkg) ==
    data_root \o <<"git-packages", pkg.name \o "-" \o pkg.source.commit>>

\* a test that finds no name in registry_packages
NeverInRegistry(registry, name) == FALSE

\* resolve_source: package.name in self.registry_packages
InRegistry(registry, name) == registry[name] /= "none"

\* the provider's state, for the steps that change a part of it
NrState ==
    [registry |-> nr_registry, requests |-> nr_requests, used |-> nr_used,
     waiters |-> nr_waiters, stage |-> nr_stage, lockfiles |-> nr_lockfiles,
     git |-> nr_git, entries |-> nr_entries]

InitNpmRun ==
    /\ GenIdle
    /\ ReqIdle
    /\ NpmIdle
    /\ LfIdle
    /\ GitIdle
    /\ SvIdle
    /\ provider = "npm"
    /\ packages \in NpmPackageLists
    /\ max_parallel \in 1..MaxParallel
    /\ sem_value = max_parallel
    /\ sem_waiters = <<>>
    /\ task_pc = <<>>
    /\ cancel_req = {}
    /\ fetch_ok = <<>>
    /\ ready = <<>>
    /\ done_q = <<>>
    /\ run_pc = "init"
    /\ taken = 0
    /\ run_exc = 0
    /\ first_failed = 0
    /\ tarballs = <<>>
    /\ late_adds = 0
    /\ at_raise = {}
    /\ run_no = 1
    /\ first_manifest = <<>>
    /\ first_packages = <<>>
    /\ first_parallel = 1
    /\ processing = {}
    /\ nr_registry = [n \in NpmNames |-> "none"]
    /\ nr_requests = <<>>
    /\ nr_used = [n \in NpmNames |-> {}]
    /\ nr_waiters = [n \in NpmNames |-> <<>>]
    /\ nr_stage = [i \in DOMAIN packages |-> "none"]
    /\ nr_lockfiles = {}
    /\ nr_git = <<>>
    /\ nr_entries = <<>>
    /\ nr_data = <<>>
    /\ nr_no_autopatch \in BOOLEAN
    /\ nr_pc = "open"

\* the end of a step of task i under the npm provider: as TaskStepEnd, with
\* the tasks a set_result woke and the provider's state as the step left it
NpmStepEnd(i, sem, pc, eff, woken, st) ==
    LET entered == task_pc[i] \in {"created", "sem_woken"}
                     /\ pc \in {"fetch", "ok", "exc"}
        added == IF entered THEN processing \cup {packages[i]} ELSE processing
        end_pc == IF pc = "ok" /\ packages[i] \notin added THEN "exc" ELSE pc
    IN
    /\ sem_value' = sem.value
    /\ sem_waiters' = sem.waiters
    /\ task_pc' = [k \in Tasks |->
                      IF k = i THEN end_pc
                      ELSE IF k \in Range(sem.woken) THEN "sem_woken"
                      ELSE IF k \in Range(woken) THEN "fetched"
                      ELSE task_pc[k]]
    /\ ready' = Tail(ready)
                  \o [j \in DOMAIN woken |-> <<"task", woken[j]>>]
                  \o [j \in DOMAIN sem.woken |-> <<"task", sem.woken[j]>>]
                  \o (IF Pending(pc) THEN <<>> ELSE << <<"done", i>> >>)
    /\ processing' = IF end_pc = "ok" THEN added \ {packages[i]} ELSE added
    /\ sources' = sources \cup eff.sources
    /\ commands' = commands \o eff.commands
    /\ late_adds' = IF run_pc \in {"returned", "raised"} /\ eff /= NoEffect
                    THEN late_adds + 1 ELSE late_adds
    /\ first_failed' = IF pc = "exc" /\ first_failed = 0 THEN i ELSE first_failed
    /\ nr_registry' = st.registry
    /\ nr_requests' = st.requests
    /\ nr_used' = st.used
    /\ nr_waiters' = st.waiters
    /\ nr_stage' = st.stage
    /\ nr_lockfiles' = st.lockfiles
    /\ nr_git' = st.git
    /\ nr_entries' = st.entries
    /\ UNCHANGED <<nr_data, nr_no_autopatch, nr_pc>>
    /\ UNCHANGED <<split_size, gen_pc, manifest, chunks, warnings>>
    /\ UNCHANGED <<req_vars, npm_vars, lf_vars, git_vars, sv_vars>>
    /\ UNCHANGED <<provider, packages, max_parallel, cancel_req, fetch_ok, done_q,
                   run_pc, taken, run_exc, at_raise, run_no, first_manifest,
                   first_packages, first_parallel, tarballs>>

\* resolve_source once the index is at hand: the version is recorded in
\* used_versions; generate_package goes on to the await of get_size
UseIndex(st, i) ==
    [st EXCEPT !.used[packages[i].name] = @ \cup {packages[i].version},
               !.stage[i] = "size"]

\* _generate: the semaphore acquired, generate_package up to its first
\* suspension or, for a GitSource, to its end and the release
NpmTaskGenerate(i) ==
    /\ ready /= <<>> /\ Head(ready) = <<"task", i>>
    /\ i \notin cancel_req
    /\ \/ task_pc[i] = "created" /\ ~locked(sem_value, sem_waiters)
       \/ task_pc[i] = "sem_woken"
    /\ LET sem == IF task_pc[i] = "created"
                  THEN [CurSem EXCEPT !.value = @ - 1]
                  ELSE AcquireWoken(CurSem, i)
           pkg == packages[i]
           st == [NrState EXCEPT !.lockfiles = @ \cup {pkg.lockfile}]
       IN IF pkg.kind = "git"
          THEN LET path == NpmGitPath(pkg)
               IN NpmStepEnd(i, release(sem), "ok",
                     Effect({ add_git_source(pkg.source.url, pkg.source.commit, path) },
                            <<>>, <<>>),
                     <<>>,
                     [st EXCEPT !.git = DictPut(@, pkg.lockfile,
                                           DictPut(DictGet(@, pkg.lockfile),
                                                   PathStr(path), pkg))])
          ELSE IF ~InRegistry(nr_registry, pkg.name)
          THEN \* the first task of the name: it requests the index
               NpmStepEnd(i, sem, "fetch", NoEffect, <<>>,
                     [st EXCEPT !.registry[pkg.name] = "pending",
                                !.requests = Append(@, pkg.name),
                                !.stage[i] = "index"])
          ELSE IF nr_registry[pkg.name] = "pending"
          THEN \* the index is on its way: await the future
               NpmStepEnd(i, sem, "fetch", NoEffect, <<>>,
                     [st EXCEPT !.waiters[pkg.name] = Append(@, i),
                                !.stage[i] = "future"])
          ELSE NpmStepEnd(i, sem, "fetch", NoEffect, <<>>, UseIndex(st, i))

\* the read_all or get_size a task awaits completes or fails
NpmFetchDone(i, ok) ==
    /\ i \in Tasks
    /\ nr_stage[i] \in {"index", "size"}
    /\ FetchDone(i, ok)

\* the tasks set_result wakes: those still awaiting the future of the name
FutureWaiters(name) ==
    LET Awaits(w) == task_pc[w] = "fetch" /\ nr_stage[w] = "future"
                       /\ w \notin cancel_req
    IN SelectSeq(nr_waiters[name], Awaits)

\* generate_package resumed: with the index it requested, with the result of
\* the future it awaited, or with the size of the tarball
NpmTaskResume(i) ==
    /\ ready /= <<>> /\ Head(ready) = <<"task", i>>
    /\ i \notin cancel_req
    /\ task_pc[i] = "fetched"
    /\ LET pkg == packages[i]
       IN IF ~fetch_ok[i]
          THEN NpmStepEnd(i, release(CurSem), "exc", NoEffect, <<>>, NrState)
          ELSE IF nr_stage[i] = "index"
          THEN NpmStepEnd(i, CurSem, "fetch", NoEffect, FutureWaiters(pkg.name),
                     UseIndex([NrState EXCEPT !.registry[pkg.name] = "set",
                                              !.waiters[pkg.name] = <<>>], i))
          ELSE IF nr_stage[i] = "future"
          THEN NpmStepEnd(i, CurSem, "fetch", NoEffect, <<>>, UseIndex(NrState, i))
          ELSE LET resolved == tarball(pkg.name, pkg.version)
               IN NpmStepEnd(i, release(CurSem), "ok",
                     Effect({ add_url_source(resolved, pkg.integrity,
                                             get_cacache_content_path(pkg.integrity),
                                             None) },
                            <<>>, <<>>),
                     <<>>,
                     [NrState EXCEPT !.entries =
                         IF resolved \in Range(@) THEN @ ELSE Append(@, resolved)])

\* json.dumps of a dict of strings
RECURSIVE JsonItems(_)
JsonItems(items) ==
    IF items = <<>> THEN ""
    ELSE "\"" \o items[1][1] \o "\": \"" \o items[1][2] \o "\""
         \o (IF Len(items) > 1 THEN ", " \o JsonItems(Tail(items)) ELSE "")

JsonDict(items) == "{" \o JsonItems(items) \o "}"

\* the jq scripts of _finalize, dedented, stripped, joined and shell-quoted
jq_package_json ==
    "'walk(    if type == \"object\"    then        to_entries | map(            if (.value | type == \"string\") and $data[.value]            then .value = \"git+file:\\($buildroot)/\\($data[.value])\"            else .            end        ) | from_entries    else .    end)'"

jq_package_lock_json ==
    "'walk(    if type == \"object\" and (.version | type == \"string\") and $data[.version]    then        .version = \"git+file:\\($buildroot)/\\($data[.version])\"    else .    end)'"

RECURSIVE PatchTables(_, _)
\* the two tables of a lockfile: for each (path, source) of its git_sources,
\* from_ and original, and each again without a leading 'git+', are mapped
\* to '<path>#<commit>'
PatchTables(items, data) ==
    IF items = <<>> THEN data
    ELSE LET path == items[1][1]
             pkg == items[1][2]
             source == pkg.source
             new_version == path \o "#" \o source.commit
             scheme == urlparse(pkg.spec).scheme
             with_from == DictPut(data.package_json, source.from_, new_version)
             with_original ==
                 DictPut(data.package_lock_json, source.original, new_version)
         IN PatchTables(Tail(items),
               [package_json |->
                    IF pkg.from.gitplus
                    THEN DictPut(with_from, pkg.from.rest, new_version)
                    ELSE with_from,
                package_lock_json |->
                    IF scheme \in {"git+http", "git+https", "git+ssh"}
                    THEN DictPut(with_original,
                                 StripGitPlus(scheme) \o ":"
                                     \o geturl_rest(urlparse(pkg.spec)),
                                 new_version)
                    ELSE with_original])

\* relative_lockfile_dir: lockfile.parent.relative_to(self.lockfile_root)
relative_lockfile_dir(lockfile) == PathParent(lockfile)

\* the two commands that patch one file of a lockfile's directory
PatchFile(lockfile, filename, script, table) ==
    LET target == PathStr(<<"$FLATPAK_BUILDER_BUILDDIR">>
                             \o relative_lockfile_dir(lockfile) \o <<filename>>)
    IN << "jq --arg buildroot \"$FLATPAK_BUILDER_BUILDDIR\" --argjson data '"
             \o JsonDict(table) \o "' " \o script \o " " \o target
             \o " > " \o target \o ".new",
          "mv " \o target \o "{.new,}" >>

\* patch_commands[lockfile]: empty for a lockfile without git sources
patch_commands(lockfile, data) ==
    IF \E k \in DOMAIN data : data[k][1] = lockfile
    THEN LET tables == DictGet(data, lockfile)
         IN PatchFile(lockfile, "package.json", jq_package_json, tables.package_json)
            \o PatchFile(lockfile, "package-lock.json", jq_package_lock_json,
                         tables.package_lock_json)
    ELSE <<>>

\* data_root / 'patch' / <relative dir>, '.sh' added to its name
patch_dest(lockfile) ==
    LET dest == data_root \o <<"patch">> \o relative_lockfile_dir(lockfile)
    IN PathParent(dest) \o <<PathName(dest) \o ".sh">>

patch_all_dest == data_root \o <<"patch-all.sh">>

\* a patch-all script that runs every patch script twice
PatchAllTwice(order) ==
    [k \in 1..(2 * Len(order)) |->
        "$FLATPAK_BUILDER_BUILDDIR/"
            \o PathStr(patch_dest(order[((k - 1) % Len(order)) + 1]))]

\* patch_all_commands, for the lockfiles in the iteration order of the set
patch_all_commands(order) ==
    [k \in DOMAIN order |-> "$FLATPAK_BUILDER_BUILDDIR/" \o PathStr(patch_dest(order[k]))]

\* Integrity.generate(data) as a cacache path: the digest of a text is
\* written '#' followed by the text, a hash without collisions
GeneratedSlices(data) == <<"#", "#", "#" \o data>>

\* json.dumps(index.data) after the versions not in used_versions are deleted
RECURSIVE IndexVersions(_, _, _)
IndexVersions(name, versions, used) ==
    IF versions = <<>> THEN ""
    ELSE LET rest == IndexVersions(name, Tail(versions), used)
         IN IF versions[1] \in used
            THEN "\"" \o versions[1] \o "\": {\"dist\": {\"tarball\": \""
                     \o tarball(name, versions[1]) \o "\"}}"
                     \o (IF rest /= "" THEN ", " \o rest ELSE "")
            ELSE rest

IndexData(name, used) ==
    "{\"versions\": {" \o IndexVersions(name, RegistryVersions, used) \o "}}"

\* the text add_index_entry stores for a url, and its path below index-v5
IndexEntry(url) ==
    add_data_source("index entry of " \o url,
                    cacache_dir \o <<"index-v5">>
                        \o GeneratedSlices("make-fetch-happen:request-cache:" \o url))

RECURSIVE AllPatchTables(_)
\* data of every lockfile of git_sources, in the order of the dict
AllPatchTables(git) ==
    IF git = <<>> THEN <<>>
    ELSE << <<git[1][1],
              PatchTables(git[1][2], [package_json |-> <<>>, package_lock_json |-> <<>>])>> >>
         \o AllPatchTables(Tail(git))

\* _finalize: the trimmed indexes, the patch scripts, patch-all and the
\* command that runs it, the index entries.  `order` is the iteration order
\* of the set all_lockfiles.
NpmFinalize(order) ==
    LET data == AllPatchTables(nr_git)
        entries == nr_entries \o [k \in DOMAIN nr_requests |-> data_url(nr_requests[k])]
    IN [sources |->
            { add_data_source(IndexData(n, nr_used[n]),
                              cacache_dir \o <<"content-v2", "sha256">>
                                  \o GeneratedSlices(IndexData(n, nr_used[n]))) :
                  n \in Range(nr_requests) }
            \cup { add_script_source(patch_commands(l, data), patch_dest(l)) :
                     l \in nr_lockfiles }
            \cup { add_script_source(patch_all_commands(order), patch_all_dest) }
            \cup { IndexEntry(url) : url \in Range(entries) },
        commands |->
            IF nr_no_autopatch THEN <<>>
            ELSE << "FLATPAK_BUILDER_BUILDDIR=$PWD " \o PathStr(patch_all_dest) >>,
        data |-> data,
        entries |-> entries]

\* run() takes the last results and returns; main leaves the with blocks:
\* the provider's __exit__ finalizes, then the generator's
NpmRunReturn ==
    /\ ready /= <<>> /\ Head(ready) = <<"run", 0>>
    /\ FailedInQueue = {}
    /\ taken + Len(done_q) = Len(packages)
    /\ taken' = taken + Len(done_q)
    /\ done_q' = <<>>
    /\ run_pc' = "returned"
    /\ ready' = Tail(ready)
    /\ \E order \in InjectiveSeqs(nr_lockfiles, Cardinality(nr_lockfiles)) :
          LET fin == NpmFinalize(order)
              cmds == commands \o fin.commands
          IN /\ commands' = cmds
             /\ sources' = _finalize(sources \cup fin.sources, cmds)
             /\ nr_data' = fin.data
             /\ nr_entries' = fin.entries
    /\ nr_pc' = "finalized"
    /\ gen_pc' = "finalized"
    /\ UNCHANGED <<split_size, manifest, chunks, warnings>>
    /\ UNCHANGED <<nr_registry, nr_requests, nr_used, nr_waiters, nr_stage,
                   nr_lockfiles, nr_git, nr_no_autopatch>>
    /\ UNCHANGED <<req_vars, npm_vars, lf_vars, git_vars, sv_vars>>
    /\ UNCHANGED <<processing, provider, packages, max_parallel, sem_value,
                   sem_waiters, task_pc, cancel_req, fetch_ok, run_exc,
                   first_failed, tarballs, late_adds, at_raise, run_no,
                   first_manifest, first_packages, first_parallel>>

NextNpmRun ==
    \/ RunStart
    \/ \E i \in Tasks : TaskBlock(i)
    \/ \E i \in Tasks : NpmTaskGenerate(i)
    \/ \E i \in Tasks, ok \in BOOLEAN : NpmFetchDone(i, ok)
    \/ \E i \in Tasks : NpmTaskResume(i)
    \/ \E i \in Tasks : TaskCancelled(i)
    \/ \E i \in Tasks : OnCompletion(i)
    \/ RunContinue
    \/ NpmRunReturn
    \/ RunRaise

SpecNpmRun == InitNpmRun /\ [][NextNpmRun]_vars

\* packages i and j of one lockfile, pinned to one repository at two commits
SameRepoTwoCommits(i, j) ==
    /\ i /= j
    /\ packages[i].kind = "git" /\ packages[j].kind = "git"
    /\ packages[i].lockfile = packages[j].lockfile
    /\ packages[i].source.url = packages[j].source.url
    /\ packages[i].source.commit /= packages[j].source.commit

\* the checkout directories of the git sources the generator holds for the
\* repository and commit of package i
CheckoutsOf(i) ==
    { src[4][2] : src \in { s \in sources : /\ s[1] = <<"type", "git">>
                                            /\ s[2] = <<"url", packages[i].source.url>>
                                            /\ s[3] = <<"commit", packages[i].source.commit>> } }

\* the commands of the script sources at the patch destination of a lockfile
PatchScriptsOf(lockfile) ==
    { s[2][2] : s \in { t \in sources :
                          /\ t[1] = <<"type", "script">>
                          /\ Destination(t) = Destination(add_script_source(<<>>,
                                                              patch_dest(lockfile))) } }

\* C22: after finalization, two packages of one lockfile pinned to the same
\* repository at different commits have two distinct checkout directories,
\* and the lockfile's one patch script carries the rewrite table of
\* package-lock.json in which each package's own original specifier is mapped
\* to its own checkout and commit, in either order of generation.
C22_TwoCommitsTwoEntries ==
    nr_pc = "finalized" =>
        \A i, j \in DOMAIN packages :
            SameRepoTwoCommits(i, j) =>
                LET lockfile == packages[i].lockfile
                    table == DictGet(nr_data, lockfile).package_lock_json
                    Entry(k) == DictGet(table, packages[k].source.original)
                IN /\ Cardinality(CheckoutsOf(i)) = 1
                   /\ Cardinality(CheckoutsOf(j)) = 1
                   /\ CheckoutsOf(i) /= CheckoutsOf(j)
                   /\ packages[i].source.original /= packages[j].source.original
                   /\ Entry(i) /= Entry(j)
                   /\ \A k \in {i, j} :
                         Entry(k) \in { d \o "#" \o packages[k].source.commit :
                                          d \in CheckoutsOf(k) }
                   /\ \A cmds \in PatchScriptsOf(lockfile) :
                         cmds[3] = PatchFile(lockfile, "package-lock.json",
                                             jq_package_lock_json, table)[1]
                   /\ Cardinality(PatchScriptsOf(lockfile)) = 1

\* finalized with the two commits generated in the order opposite to the
\* order of their entries in the table of the other witnessable run
C22_Witness ==
    /\ nr_pc = "finalized"
    /\ \E i, j \in DOMAIN packages :
          i < j /\ packages[i] = NpmG2 /\ packages[j] = NpmG1

\* the lockfiles with at least one git package
GitLockfiles ==
    { packages[i].lockfile : i \in { k \in DOMAIN packages : packages[k].kind = "git" } }

\* the commands of the script sources at the destination of patch-all
PatchAllScripts ==
    { s[2][2] : s \in { t \in sources :
                          /\ t[1] = <<"type", "script">>
                          /\ Destination(t) = Destination(add_script_source(<<>>,
                                                              patch_all_dest)) } }

\* how many of the commands are the given one
Occurrences(cmds, cmd) == Cardinality({ k \in DOMAIN cmds : cmds[k] = cmd })

autopatch_command == "FLATPAK_BUILDER_BUILDDIR=$PWD " \o PathStr(patch_all_dest)

\* C23: no script source is emitted before finalization; once the provider
\* is finalized every package has been generated, each lockfile with a git
\* package has exactly one patch script source, there is one patch-all script
\* that invokes the patch script of each lockfile exactly once and nothing
\* else, and the queued commands, folded into the shell source, invoke
\* patch-all exactly once, or never under no_autopatch.
C23_FinalizeAfterAllOnce ==
    /\ nr_pc /= "finalized" =>
          /\ \A s \in sources : s[1] /= <<"type", "script">>
          /\ Occurrences(commands, autopatch_command) = 0
    /\ nr_pc = "finalized" =>
          /\ \A i \in DOMAIN packages : i \in Tasks /\ task_pc[i] = "ok"
          /\ run_pc = "returned"
          /\ \A l \in GitLockfiles :
                /\ Cardinality(PatchScriptsOf(l)) = 1
                /\ \A cmds \in PatchScriptsOf(l) : cmds /= <<>>
          /\ Cardinality(PatchAllScripts) = 1
          /\ \A cmds \in PatchAllScripts :
                /\ \A l \in nr_lockfiles :
                      Occurrences(cmds, "$FLATPAK_BUILDER_BUILDDIR/"
                                            \o PathStr(patch_dest(l))) = 1
                /\ Len(cmds) = Cardinality(nr_lockfiles)
          /\ Occurrences(commands, autopatch_command)
                = (IF nr_no_autopatch THEN 0 ELSE 1)
          /\ ~nr_no_autopatch =>
                << <<"type", "shell">>, <<"commands", commands>> >> \in sources

\* finalized with autopatch, over two lockfiles of which one has a git package
C23_Witness ==
    /\ nr_pc = "finalized"
    /\ ~nr_no_autopatch
    /\ nr_lockfiles = {RootLockfile, SubLockfile}
    /\ GitLockfiles = {RootLockfile}

\* the tasks of the packages with a ResolvedSource named `name`
ResolvedTasks(name) ==
    { i \in Tasks : packages[i].kind = "resolved" /\ packages[i].name = name }

\* C28: under every interleaving the index of a name is requested at most
\* once; a task that finds the request under way waits on its future, and
\* goes on only after the result is set; every task past resolve_source has
\* its version in used_versions, so that at finalization the trimmed index
\* added to the sources keeps exactly the versions of the packages generated.
C28_OneIndexRequestPerName ==
    /\ \A j, k \in DOMAIN nr_requests : j /= k => nr_requests[j] /= nr_requests[k]
    /\ \A n \in NpmNames :
          /\ (nr_registry[n] /= "none") = (n \in Range(nr_requests))
          /\ \A i \in ResolvedTasks(n) :
                /\ (nr_stage[i] = "future" /\ task_pc[i] = "fetch" /\ i \notin cancel_req)
                      => /\ nr_registry[n] = "pending"
                         /\ i \in Range(nr_waiters[n])
                         /\ \E f \in ResolvedTasks(n) : f /= i /\ nr_stage[f] = "index"
                /\ nr_stage[i] = "size"
                      => /\ nr_registry[n] = "set"
                         /\ packages[i].version \in nr_used[n]
          /\ (nr_pc = "finalized" /\ ResolvedTasks(n) /= {})
                => /\ nr_used[n] = { packages[i].version : i \in ResolvedTasks(n) }
                   /\ \E s \in sources :
                         /\ s[1] = <<"type", "inline">>
                         /\ s[2] = <<"contents", IndexData(n, nr_used[n])>>

\* the future of a name was awaited by a second task while the first fetched
\* the index; the result is set, the first version recorded, the waiter woken
C28_Witness ==
    \E n \in NpmNames :
        \E f, w \in ResolvedTasks(n) :
            /\ f /= w
            /\ nr_stage[f] = "size"
            /\ nr_stage[w] = "future" /\ task_pc[w] = "fetched"
            /\ nr_registry[n] = "set"
            /\ Len(nr_requests) = 1

\* a callback of the event loop's ready queue, or run() itself
NpmLoopStep ==
    \/ RunStart
    \/ \E i \in Tasks : TaskBlock(i)
    \/ \E i \in Tasks : NpmTaskGenerate(i)
    \/ \E i \in Tasks : NpmTaskResume(i)
    \/ \E i \in Tasks : TaskCancelled(i)
    \/ \E i \in Tasks : OnCompletion(i)
    \/ RunContinue
    \/ NpmRunReturn
    \/ RunRaise

\* the end of a request a task awaits, with a response or with an error
NpmRequestEnds == \E i \in Tasks, ok \in BOOLEAN : NpmFetchDone(i, ok)

\* the runs whose termination is checked: two versions of one name and a
\* second name, patch-all run automatically
NpmFairPackageLists ==
    UNION { InjectiveSeqs({NpmA1, NpmA2, NpmB1}, n) : n \in 1..MaxPkgs }

InitNpmFair ==
    /\ InitNpmRun
    /\ packages \in NpmFairPackageLists
    /\ ~nr_no_autopatch

\* the event loop runs every callback that is ready, and every request ends:
\* Requests gives up after its retries, and aiohttp's timeout bounds each try
SpecNpmRunFair ==
    /\ InitNpmFair
    /\ [][NextNpmRun]_vars
    /\ WF_vars(NpmLoopStep)
    /\ WF_vars(NpmRequestEnds)

\* run() has returned or raised and no task is left waiting
Terminated ==
    /\ run_pc \in {"returned", "raised"}
    /\ \A i \in DOMAIN packages : i \in Tasks /\ ~Pending(task_pc[i])

\* C29: run() always terminates, for every pattern of failing requests: it
\* returns or raises, and from then on every task is completed, failed or
\* cancelled; none is left waiting for its first step, on the semaphore, on a
\* request or on the future of a registry index.
C29_RunTerminates == <>[]Terminated

\* run() has raised for the task that requested an index and failed, and the
\* task that waited on the future of that index has been cancelled
C29_Witness ==
    /\ run_pc = "raised"
    /\ \E f, w \in Tasks :
          /\ nr_stage[f] = "index" /\ task_pc[f] = "exc"
          /\ nr_stage[w] = "future" /\ task_pc[w] = "cancelled"
          /\ packages[f].name = packages[w].name

====
